---- MODULE Spec2Model ----
(***************************************************************************)
(* Model of the downly backend: the job scheduler (QueueService), the      *)
(* progress bus (ProgressService), the download / convert route handlers   *)
(* and the child processes and streams they own.                           *)
(***************************************************************************)
EXTENDS Integers, Sequences, FiniteSets, TLC

(* ------------------------------- bounds -------------------------------- *)
\* number of job ids generateJobId hands out in one run of the scheduler
MaxJobs == 3
\* number of jobs admitted in one run of the whole program (Spec)
MaxProgramJobs == 2
\* number of bytes one extractor writes to its stdout (SpecProgress)
MaxBytes == 81920

(* ----------------------------- vocabulary ------------------------------ *)
NoJob == 0          \* activeJob === null, job.dependsOn undefined
NoId == 0           \* job.downloadId undefined, download_id not supplied
NoError == ""       \* job.error undefined
Null == -1          \* totalBytes: null, percentage: null
\* a URL string: the scheme and the host as written, character by character,
\* and the length of the whole string; NoUrl is the empty string
NoUrl == [scheme |-> <<>>, host |-> <<>>, length |-> 0]

JobIds == 1..MaxJobs
\* download ids: a job id used as download id, or the download_id query
\* parameter of the legacy path, which the client is free to choose
DownloadIds == JobIds

ActiveStatus == {"downloading", "converting"}
TerminalStatus == {"completed", "failed"}
SessionTerminal == {"completed", "error", "cancelled"}

ErrCancelled == "Cancelled by user"
ErrDisconnected == "Client disconnected"
ErrResponseClosed == "Response closed unexpectedly"
ErrDownloadTimeout == "Download timeout"
ErrConversionTimeout == "Conversion timeout"
ErrExitCode == "yt-dlp process exited with code 1"
DependencyFailed(error) == "Dependency failed: " \o error

\* the progress connection before the request arrives
NoClient == [downloadId |-> 0, open |-> FALSE, messages |-> <<>>]

\* the clients the rate limiters tell apart (keyGenerator: the client IP)
ClientIps == {"a", "b"}
\* the global limiter before any request: no hits, no request seen
NoTraffic == [hits |-> [ip \in ClientIps |-> 0], path |-> <<>>, ip |-> "",
              counted |-> FALSE, rejected |-> FALSE]

\* no title has been sanitized yet
NoFilename == [name |-> <<>>, safe |-> <<>>]
\* no batch has been analyzed yet
NoBatch ==
    [urls |-> <<>>, status |-> 0, message |-> "", analyzed |-> <<>>,
     results |-> <<>>, total |-> 0, successful |-> 0, failed |-> 0]

VARIABLES
    jobs,       \* QueueService.jobs: Map jobId -> QueueJob
    queue,      \* QueueService.queue: job ids in admission order
    activeJob,  \* QueueService.activeJob
    nextId,     \* next id generateJobId returns
    sessions,   \* ProgressService.sessions: Map downloadId -> DownloadSession
    handler,    \* per started job: the route handler instance, its child and stream
    counter,    \* per started job: bytesDownloaded of its streamDownload closure
    progress,   \* session.progress of every session: the byte fields
    published,  \* the events the last step emitted on the progress bus, in order
    client,     \* one GET /api/progress/:downloadId connection: what it was sent
    limiter,    \* apiRateLimiter: hits per client in the window, and the last request
    filename,   \* the last title given to safeFilename, and what it returned
    batch,      \* the last batch given to batchAnalyzeHandler, and its outcome
    url,        \* the argument of the last call of isValidUrl
    valid       \* what that call returned

vars == <<jobs, queue, activeJob, nextId, sessions, handler, counter, progress,
          published, client, limiter, filename, batch, url, valid>>

(* ========================= QueueService (pure) ========================= *)
\* The scheduler state is threaded through the operators below as a record
\* q = [jobs, queue, activeJob, entry, out]; entry is the value activeJob had
\* when processQueue was last entered from outside, out the events the
\* scheduler has emitted since the step began.

Min(S) == CHOOSE x \in S : \A y \in S : x <= y

NewJob(type, urlOk, dependsOn) ==
    [type |-> type, urlOk |-> urlOk, dependsOn |-> dependsOn,
     status |-> "queued", error |-> NoError, downloadId |-> NoId]

\* this.emit(type, job)
emitJob(q, type, jobId) ==
    [q EXCEPT !.out = Append(@, [type |-> type, job |-> jobId,
                                 status |-> q.jobs[jobId].status])]

\* getQueueState(): the job list with its statuses, the queue and processing
getQueueState(q) ==
    [type |-> "queueUpdated",
     jobs |-> [k \in DOMAIN q.jobs |-> q.jobs[k].status],
     queue |-> q.queue,
     processing |-> q.activeJob]

\* this.emit('queueUpdated', this.getQueueState())
emitQueueUpdated(q) == [q EXCEPT !.out = Append(@, getQueueState(q))]

canJobStart_Always(js, job) == TRUE

canJobStart(js, job) ==
    IF job.dependsOn = NoJob THEN TRUE
    ELSE IF job.dependsOn \notin DOMAIN js THEN FALSE
    ELSE js[job.dependsOn].status = "completed"

startJobGuard_NoActiveCheck(q, jobId) ==
    /\ jobId \in DOMAIN q.jobs
    /\ q.queue # <<>>
    /\ Head(q.queue) = jobId
    /\ canJobStart(q.jobs, q.jobs[jobId])

startJobGuard_NoHeadCheck(q, jobId) ==
    /\ jobId \in DOMAIN q.jobs
    /\ q.activeJob = NoJob
    /\ q.queue # <<>>
    /\ canJobStart(q.jobs, q.jobs[jobId])

\* the four early returns of startJob
startJobGuard(q, jobId) ==
    /\ jobId \in DOMAIN q.jobs
    /\ q.activeJob = NoJob
    /\ q.queue # <<>>
    /\ Head(q.queue) = jobId
    /\ canJobStart(q.jobs, q.jobs[jobId])

startJob_AnnouncesRefusal(q, jobId, downloadId) ==
    IF ~startJobGuard(q, jobId) THEN emitQueueUpdated(q)
    ELSE LET q1 == [q EXCEPT
                      !.queue = Tail(q.queue),
                      !.activeJob = jobId,
                      !.jobs[jobId].status =
                          IF q.jobs[jobId].type = "download"
                          THEN "downloading" ELSE "converting",
                      !.jobs[jobId].downloadId = downloadId]
         IN emitQueueUpdated(emitJob(q1, "jobStarted", jobId))

startJob(q, jobId, downloadId) ==
    IF ~startJobGuard(q, jobId) THEN q
    ELSE LET q1 == [q EXCEPT
                      !.queue = Tail(q.queue),
                      !.activeJob = jobId,
                      !.jobs[jobId].status =
                          IF q.jobs[jobId].type = "download"
                          THEN "downloading" ELSE "converting",
                      !.jobs[jobId].downloadId = downloadId]
         IN emitQueueUpdated(emitJob(q1, "jobStarted", jobId))

RECURSIVE processQueue(_)
processQueue(q0) ==
    LET q == [q0 EXCEPT !.entry = q0.activeJob] IN
    IF q.activeJob # NoJob \/ q.queue = <<>> THEN q
    ELSE IF Head(q.queue) \notin DOMAIN q.jobs
         THEN processQueue([q EXCEPT !.queue = Tail(q.queue)])
         \* ready or blocked on its dependency: either way only queueUpdated
         \* is emitted; the route handler calls startJob
         ELSE emitQueueUpdated(q)

finishJob_NoClear(q, jobId) == processQueue(q)

finishJob(q, jobId) ==
    processQueue(emitQueueUpdated(
        [q EXCEPT !.activeJob = IF @ = jobId THEN NoJob ELSE @]))

\* the queued convert jobs that depend on downloadJobId
Dependents(q, downloadJobId) ==
    {k \in DOMAIN q.jobs :
        /\ q.jobs[k].type = "convert"
        /\ q.jobs[k].dependsOn = downloadJobId
        /\ q.jobs[k].status = "queued"}

\* for each dependent, in Map insertion order: dependencyCompleted, queueUpdated
RECURSIVE notifyEach(_, _)
notifyEach(q, deps) ==
    IF deps = {} THEN q
    ELSE LET k == Min(deps)
         IN notifyEach(emitQueueUpdated(emitJob(q, "dependencyCompleted", k)),
                       deps \ {k})

notifyDependentJobs(q, downloadJobId) ==
    notifyEach(q, Dependents(q, downloadJobId))

\* for each dependent, in Map insertion order: splice, mark failed, jobFailed
RECURSIVE failEach(_, _, _)
failEach(q, deps, error) ==
    IF deps = {} THEN q
    ELSE LET k == Min(deps)
             q1 == [q EXCEPT !.queue = SelectSeq(@, LAMBDA x : x # k),
                             !.jobs[k].status = "failed",
                             !.jobs[k].error = error]
         IN failEach(emitJob(q1, "jobFailed", k), deps \ {k}, error)

failDependentJobs_Skips(q, downloadJobId, error) == q

failDependentJobs(q, downloadJobId, error) ==
    failEach(q, Dependents(q, downloadJobId), error)

completeJob(q, jobId) ==
    IF jobId \notin DOMAIN q.jobs THEN q
    ELSE LET q1 == [q EXCEPT !.jobs[jobId].status = "completed"]
             q2 == IF q.jobs[jobId].type = "download"
                   THEN notifyDependentJobs(q1, jobId) ELSE q1
         IN finishJob(emitJob(q2, "jobCompleted", jobId), jobId)

failJob(q, jobId, error) ==
    IF jobId \notin DOMAIN q.jobs THEN q
    ELSE LET q1 == [q EXCEPT !.jobs[jobId].status = "failed",
                             !.jobs[jobId].error = error]
             q2 == IF q.jobs[jobId].type = "download"
                   THEN failDependentJobs(q1, jobId, DependencyFailed(error))
                   ELSE q1
         IN finishJob(emitJob(q2, "jobFailed", jobId), jobId)

cancelJob_KeepsInQueue(q, jobId) ==
    IF jobId \notin DOMAIN q.jobs THEN q
    ELSE LET q1 == [q EXCEPT
                      !.activeJob = IF @ = jobId THEN NoJob ELSE @,
                      !.jobs[jobId].status = "failed",
                      !.jobs[jobId].error = ErrCancelled]
         IN processQueue(emitQueueUpdated(emitJob(q1, "jobCancelled", jobId)))

cancelJob_KeepsSlot(q, jobId) ==
    IF jobId \notin DOMAIN q.jobs THEN q
    ELSE processQueue([q EXCEPT
                         !.queue = SelectSeq(q.queue, LAMBDA x : x # jobId),
                         !.jobs[jobId].status = "failed",
                         !.jobs[jobId].error = ErrCancelled])

\* the scheduler side of cancelJob; the call it makes to
\* progressService.cancelDownload is applied by the CancelJob action
cancelJob(q, jobId) ==
    IF jobId \notin DOMAIN q.jobs THEN q
    ELSE LET q1 == [q EXCEPT
                      !.queue = SelectSeq(q.queue, LAMBDA x : x # jobId),
                      !.activeJob = IF @ = jobId THEN NoJob ELSE @,
                      !.jobs[jobId].status = "failed",
                      !.jobs[jobId].error = ErrCancelled]
         IN processQueue(emitQueueUpdated(emitJob(q1, "jobCancelled", jobId)))

\* the listener QueueService registers on the progress bus: what it does to
\* the job it matched
onProgressJob(q, jobId, status, error) ==
    LET job == q.jobs[jobId]
        r == IF status = "completed"
             THEN IF job.status \in ActiveStatus
                  THEN LET q1 == [q EXCEPT !.jobs[jobId].status = "completed"]
                           q2 == IF job.type = "download"
                                 THEN notifyDependentJobs(q1, jobId) ELSE q1
                       IN finishJob(emitJob(q2, "jobCompleted", jobId), jobId)
                  ELSE q
             ELSE IF status = "error"
             THEN LET q1 == [q EXCEPT !.jobs[jobId].status = "failed",
                                      !.jobs[jobId].error = error]
                      q2 == IF job.type = "download"
                            THEN failDependentJobs(q1, jobId, DependencyFailed(error))
                            ELSE q1
                  IN finishJob(emitJob(q2, "jobFailed", jobId), jobId)
             ELSE q   \* downloading, cancelled: only job.progress is refreshed
    IN emitQueueUpdated(emitJob(r, "jobProgress", jobId))

\* the listener: the first job in Map insertion order whose downloadId is the
\* event's, then break
onProgress(q, downloadId, status, error) ==
    LET match == {k \in DOMAIN q.jobs : q.jobs[k].downloadId = downloadId} IN
    IF match = {} THEN q
    ELSE onProgressJob(q, Min(match), status, error)

(* ======================== ProgressService (pure) ======================= *)
\* The operators below act on a world record w = [q, s, h]: the scheduler
\* record, the session map and the handler map.  Publishing a progress event
\* runs the scheduler's listener synchronously.

\* progress.error is carried by the event; the stored copy is never read back
NewSession == [status |-> "downloading", proc |-> NoJob, del |-> FALSE]

createSession(s, id) ==
    IF id \in DOMAIN s THEN s     \* don't overwrite existing session
    ELSE [k \in DOMAIN s \cup {id} |-> IF k = id THEN NewSession ELSE s[k]]

\* this.emit('progress', session.progress): w.ev collects what the step writes
\* to session.progress and emits; the listener of the scheduler runs at once
emit(w, downloadId, status, bytesDownloaded, totalBytes, error) ==
    [w EXCEPT !.ev = Append(@, [downloadId |-> downloadId, status |-> status,
                                bytesDownloaded |-> bytesDownloaded,
                                totalBytes |-> totalBytes]),
              !.q = onProgress(w.q, downloadId, status, error)]

updateProgress(w, downloadId, bytesDownloaded, totalBytes) ==
    IF downloadId \notin DOMAIN w.s THEN w
    ELSE emit([w EXCEPT !.s[downloadId].status = "downloading"],
              downloadId, "downloading", bytesDownloaded, totalBytes, NoError)

\* ...session.progress: the byte fields are carried over
markCompleted(w, downloadId) ==
    IF downloadId \notin DOMAIN w.s THEN w
    ELSE emit([w EXCEPT !.s[downloadId].status = "completed"],
              downloadId, "completed", Null, Null, NoError)

markError(w, downloadId, error) ==
    IF downloadId \notin DOMAIN w.s THEN w
    ELSE emit([w EXCEPT !.s[downloadId].status = "error"],
              downloadId, "error", Null, Null, error)

Destroyed(stream) == stream \in {"ended", "destroyed"}

\* process.kill('SIGTERM') guarded by !killed && exitCode === null, and the
\* 2 s timer set with it; kill() sets process.killed
killIfRunning(hr) ==
    IF ~hr.killed /\ hr.child = "running"
    THEN [hr EXCEPT !.killed = TRUE, !.grace = "timer"]
    ELSE hr

\* the callback of that timer: SIGKILL guarded by !killed && exitCode === null
forceKill(hr) ==
    IF ~hr.killed /\ hr.child = "running" THEN [hr EXCEPT !.child = "sigkilled"] ELSE hr

cancelDownload(w, downloadId) ==
    IF downloadId \notin DOMAIN w.s THEN w
    ELSE LET o == w.s[downloadId].proc
             h1 == IF o = NoJob THEN w.h
                   ELSE [w.h EXCEPT
                           ![o] = [killIfRunning(@) EXCEPT
                                     !.stream = IF Destroyed(@) THEN @ ELSE "destroyed"]]
         IN emit([w EXCEPT !.h = h1,
                           !.s[downloadId].status = "cancelled",
                           !.s[downloadId].del = TRUE],
                 downloadId, "cancelled", Null, Null, NoError)

setSessionReferences(s, downloadId, owner) ==
    IF downloadId \in DOMAIN s THEN [s EXCEPT ![downloadId].proc = owner] ELSE s

(* ================= streamDownload / convertMedia closures =============== *)
NoHandler ==
    [pc |-> "none", kind |-> "none", urlOk |-> FALSE, did |-> NoId,
     child |-> "none", ffmpeg |-> "none", killed |-> FALSE, ffKilled |-> FALSE,
     stream |-> "none", cleaned |-> FALSE, timer |-> FALSE, gone |-> FALSE,
     grace |-> "none", ffGrace |-> "none", stdin |-> "none"]

killFfmpegIfRunning(hr) ==
    IF ~hr.ffKilled /\ hr.ffmpeg = "running"
    THEN [hr EXCEPT !.ffKilled = TRUE, !.ffGrace = "timer"]
    ELSE hr

forceKillFfmpeg(hr) ==
    IF ~hr.ffKilled /\ hr.ffmpeg = "running" THEN [hr EXCEPT !.ffmpeg = "sigkilled"] ELSE hr

\* cleanup closure of streamDownload
cleanupDownload(hr) ==
    IF hr.cleaned THEN hr
    ELSE [killIfRunning(hr) EXCEPT !.cleaned = TRUE, !.timer = FALSE]

\* cleanup closure of convertMedia: also destroys the pipes
cleanupConvert_LeavesStdin(hr) ==
    IF hr.cleaned THEN hr
    ELSE [killFfmpegIfRunning(killIfRunning(hr)) EXCEPT
            !.cleaned = TRUE, !.timer = FALSE,
            !.stream = IF Destroyed(@) THEN @ ELSE "destroyed"]

cleanupConvert(hr) ==
    IF hr.cleaned THEN hr
    ELSE [killFfmpegIfRunning(killIfRunning(hr)) EXCEPT
            !.cleaned = TRUE, !.timer = FALSE,
            !.stdin = IF @ = "none" THEN @ ELSE "destroyed",
            !.stream = IF Destroyed(@) THEN @ ELSE "destroyed"]

(* ====================== route handlers' stream events =================== *)
\* downloadHandler, stream.on('error'), then the rejected await and the
\* registration of the close listeners
downloadStreamError(w, j, msg) ==
    LET w1 == [w EXCEPT !.h[j] = cleanupDownload(@)]
        w2 == markError(w1, w.h[j].did, msg)
    IN [w2 EXCEPT !.q = failJob(@, j, msg), !.h[j].pc = "awaited"]

\* convertHandler, stream.on('error')
convertStreamError(w, j, msg) ==
    LET w1 == [w EXCEPT !.h[j] = cleanupConvert(@)]
    IN [w1 EXCEPT !.q = failJob(@, j, msg), !.h[j].pc = "awaited"]

\* stream.destroy(new Error(msg)): emits 'error' unless already destroyed
destroyWithError(w, j, msg) ==
    IF Destroyed(w.h[j].stream) THEN w
    ELSE LET w1 == [w EXCEPT !.h[j].stream = "destroyed"]
         IN IF w.h[j].kind = "download"
            THEN downloadStreamError(w1, j, msg)
            ELSE convertStreamError(w1, j, msg)

\* ytDlpProcess.on('exit') / on('close') of streamDownload
downloadChildExited(w, j, code) ==
    IF w.h[j].cleaned THEN w
    ELSE LET w1 == [w EXCEPT !.h[j].timer = FALSE] IN
         IF code = "exit1"
         THEN destroyWithError(markError(w1, w.h[j].did, ErrExitCode), j, ErrExitCode)
         ELSE IF code = "exit0" THEN markCompleted(w1, w.h[j].did)
         ELSE w1

\* ytDlpProcess.on('exit') / on('close') of convertMedia
convertChildExited(w, j, code) ==
    IF w.h[j].cleaned THEN w
    ELSE LET w1 == IF code = "exit1" THEN destroyWithError(w, j, ErrExitCode) ELSE w
         \* ffmpegProcess.stdin.end(), unless the stdin is destroyed
         IN [w1 EXCEPT !.h[j].stdin = IF @ = "open" THEN "ended" ELSE @]

\* ffmpegProcess.on('exit') / on('close') of convertMedia
ffmpegExited(w, j, code, isClose) ==
    IF w.h[j].cleaned THEN w
    ELSE LET w1 == IF isClose THEN [w EXCEPT !.h[j].timer = FALSE] ELSE w IN
         IF code = "exit1" THEN destroyWithError(w1, j, ErrExitCode) ELSE w1

ExitCodes == {"exit0", "exit1", "exitSig"}

(* ============================== the system ============================== *)
\* Handler states that no later event can tell apart are identified.
\*  - process.killed is only read while the process runs, the url only before
\*    the spawn, the lost client only while the stream can still end;
\*  - the transcoder's stdin matters only while the transcoder runs;
\*  - once isCleanedUp is set and the awaited promise has settled, the close
\*    listeners find nothing left to do;
\*  - a handler with no running process and no timer left keeps nothing but
\*    the place where it stopped.
Norm(hr) ==
    LET quiet == /\ hr.child \notin {"running", "sigkilled"}
                 /\ hr.ffmpeg \notin {"running", "sigkilled"}
                 /\ ~hr.timer
        cleaned == hr.cleaned \/ (quiet /\ Destroyed(hr.stream))
        pc == IF hr.pc = "awaited" /\ cleaned THEN "finished" ELSE hr.pc
        h1 == [hr EXCEPT !.pc = pc,
                         !.cleaned = cleaned,
                         !.killed = @ /\ hr.child = "running",
                         !.ffKilled = @ /\ hr.ffmpeg = "running",
                         !.grace = IF hr.child = "running" THEN @ ELSE "none",
                         !.ffGrace = IF hr.ffmpeg = "running" THEN @ ELSE "none",
                         !.stdin = IF hr.ffmpeg \in {"running", "sigkilled"}
                                   THEN @ ELSE "none",
                         !.urlOk = @ /\ pc = "info",
                         !.gone = @ /\ pc = "streaming" /\ ~Destroyed(hr.stream)]
    IN IF quiet /\ pc \in {"threw", "finished"}
       THEN [NoHandler EXCEPT !.pc = pc]
       ELSE IF quiet /\ Destroyed(hr.stream)
       THEN [h1 EXCEPT !.did = NoId, !.stream = "destroyed"]
       ELSE h1

\* job.url is read for the last time when the handler spawns
NormJob(job, hr) ==
    [job EXCEPT !.urlOk = @ /\ (job.status = "queued" \/ hr.pc = "info")]

World == [q |-> [jobs |-> jobs, queue |-> queue, activeJob |-> activeJob,
                 entry |-> NoJob, out |-> <<>>],
          s |-> sessions, h |-> handler, ev |-> <<>>]

Control(w) ==
    /\ jobs' = [k \in DOMAIN w.q.jobs |-> NormJob(w.q.jobs[k], w.h[k])]
    /\ queue' = w.q.queue
    /\ activeJob' = w.q.activeJob
    /\ sessions' = w.s
    /\ handler' = [j \in JobIds |-> Norm(w.h[j])]

\* Spec follows the statuses only: the byte counts are left out of it
Commit(w) ==
    /\ Control(w)
    /\ UNCHANGED <<counter, progress, published, client, limiter, filename, batch, url, valid>>

Init ==
    /\ jobs = <<>>
    /\ queue = <<>>
    /\ activeJob = NoJob
    /\ nextId = 1
    /\ sessions = <<>>
    /\ handler = [j \in JobIds |-> NoHandler]
    /\ counter = [j \in JobIds |-> 0]
    /\ progress = <<>>
    /\ published = <<>>
    /\ client = NoClient
    /\ limiter = NoTraffic
    /\ filename = NoFilename
    /\ batch = NoBatch
    /\ url = NoUrl
    /\ valid = FALSE

WithJob(js, id, job) == [k \in DOMAIN js \cup {id} |-> IF k = id THEN job ELSE js[k]]

addDownloadJob_CanStartWhenIdle(q, id, urlOk) ==
    LET q0 == [q EXCEPT !.jobs = WithJob(@, id, NewJob("download", urlOk, NoJob)),
                        !.queue = Append(@, id)]
        q1 == emitQueueUpdated(emitJob(q0, "jobAdded", id))
        canStart == q1.activeJob = NoJob
    IN [q |-> IF canStart THEN processQueue(q1) ELSE q1, canStart |-> canStart]

\* addDownloadJob with a generated id (no caller passes jobId)
addDownloadJob(q, id, urlOk) ==
    LET q0 == [q EXCEPT !.jobs = WithJob(@, id, NewJob("download", urlOk, NoJob)),
                        !.queue = Append(@, id)]
        q1 == emitQueueUpdated(emitJob(q0, "jobAdded", id))
        canStart == q1.activeJob = NoJob /\ Head(q1.queue) = id
    IN [q |-> IF canStart THEN processQueue(q1) ELSE q1, canStart |-> canStart]

addConvertJob_AnyDependency(q, id, urlOk, dependsOn) ==
    LET job == NewJob("convert", urlOk, dependsOn)
        q0 == [q EXCEPT !.jobs = WithJob(@, id, job), !.queue = Append(@, id)]
        q1 == emitQueueUpdated(emitJob(q0, "jobAdded", id))
        canStart == /\ q1.activeJob = NoJob
                    /\ Head(q1.queue) = id
                    /\ canJobStart(q1.jobs, job)
    IN [q |-> IF canStart THEN processQueue(q1) ELSE q1,
        canStart |-> canStart, ok |-> TRUE]

\* addConvertJob with a generated id; ok = FALSE when it throws
addConvertJob(q, id, urlOk, dependsOn) ==
    IF dependsOn # NoJob /\ (dependsOn \notin DOMAIN q.jobs
                             \/ q.jobs[dependsOn].type # "download")
    THEN [q |-> q, canStart |-> FALSE, ok |-> FALSE]
    ELSE LET job == NewJob("convert", urlOk, dependsOn)
             q0 == [q EXCEPT !.jobs = WithJob(@, id, job), !.queue = Append(@, id)]
             q1 == emitQueueUpdated(emitJob(q0, "jobAdded", id))
             canStart == /\ q1.activeJob = NoJob
                         /\ Head(q1.queue) = id
                         /\ canJobStart(q1.jobs, job)
         IN [q |-> IF canStart THEN processQueue(q1) ELSE q1,
             canStart |-> canStart, ok |-> TRUE]

\* POST /api/queue/download
AddDownloadJob(urlOk) ==
    /\ nextId <= MaxProgramJobs
    /\ Commit([World EXCEPT !.q = addDownloadJob(@, nextId, urlOk).q])
    /\ nextId' = nextId + 1

\* POST /api/queue/convert
AddConvertJob(urlOk, dependsOn) ==
    /\ nextId <= MaxProgramJobs
    /\ LET r == addConvertJob(World.q, nextId, urlOk, dependsOn) IN
       /\ Commit([World EXCEPT !.q = r.q])
       /\ nextId' = IF r.ok THEN nextId + 1 ELSE nextId

\* the handler instance after a successful startJob, up to its first await
startedHandler(w, j, kind, urlOk, did) ==
    [w EXCEPT !.h[j] = [NoHandler EXCEPT !.pc = "info", !.kind = kind,
                                         !.urlOk = urlOk, !.did = did]]

\* downloadHandler up to its first await or its early response, for a known
\* download job: the world it leaves and the response it has sent, if any
\* (res 0: none yet, the handler goes on to stream)
downloadByJobId(w, j) ==
    IF ~startJobGuard(w.q, j)
    THEN [w |-> w, res |-> 409, jobId |-> NoJob]
    ELSE LET w1 == [w EXCEPT !.q = startJob(@, j, j),
                             !.s = createSession(@, j)]
         IN [w |-> startedHandler(w1, j, "download", w.q.jobs[j].urlOk, j),
             res |-> 0, jobId |-> NoJob]

downloadLegacy_SessionFirst(w, id, urlOk, download_id) ==
    LET r == addDownloadJob(w.q, id, urlOk)
        did == IF download_id = NoId THEN id ELSE download_id
        w0 == [w EXCEPT !.s = createSession(@, did)]
    IN IF ~r.canStart
       THEN [w |-> [w0 EXCEPT !.q = r.q], res |-> 202, jobId |-> id]
       ELSE IF ~startJobGuard(r.q, id)
       THEN [w |-> [w0 EXCEPT !.q = r.q], res |-> 409, jobId |-> NoJob]
       ELSE LET w1 == [w0 EXCEPT
                         !.q = [startJob(r.q, id, id) EXCEPT
                                  !.jobs[id].downloadId = did]]
            IN [w |-> startedHandler(w1, id, "download", urlOk, did),
                res |-> 0, jobId |-> NoJob]

\* the legacy form of the same handler; id is the id addDownloadJob generates
downloadLegacy(w, id, urlOk, download_id) ==
    LET r == addDownloadJob(w.q, id, urlOk)
        did == IF download_id = NoId THEN id ELSE download_id
    IN IF ~r.canStart
       THEN [w |-> [w EXCEPT !.q = r.q], res |-> 202, jobId |-> id]
       ELSE IF ~startJobGuard(r.q, id)
       THEN [w |-> [w EXCEPT !.q = r.q], res |-> 409, jobId |-> NoJob]
       ELSE LET w1 == [w EXCEPT
                         !.q = [startJob(r.q, id, id) EXCEPT
                                  !.jobs[id].downloadId = did],
                         !.s = createSession(@, did)]
            IN [w |-> startedHandler(w1, id, "download", urlOk, did),
                res |-> 0, jobId |-> NoJob]

\* GET /api/download?jobId=j
DownloadByJobId(j) ==
    /\ j \in DOMAIN jobs
    /\ jobs[j].type = "download"
    /\ UNCHANGED nextId
    /\ Commit(downloadByJobId(World, j).w)

\* GET /api/download?url=..&format_id=..[&download_id=..]
DownloadLegacy(urlOk, download_id) ==
    /\ nextId <= MaxProgramJobs
    /\ nextId' = nextId + 1
    /\ Commit(downloadLegacy(World, nextId, urlOk, download_id).w)

\* POST /api/convert {jobId}
ConvertByJobId(j) ==
    /\ j \in DOMAIN jobs
    /\ jobs[j].type = "convert"
    /\ UNCHANGED nextId
    /\ IF ~startJobGuard(World.q, j)
       THEN Commit(World)                                   \* 409
       ELSE Commit(startedHandler([World EXCEPT !.q = startJob(@, j, j)],
                                  j, "convert", jobs[j].urlOk, NoId))

\* POST /api/convert {url, target_format}
ConvertLegacy(urlOk) ==
    /\ nextId <= MaxProgramJobs
    /\ nextId' = nextId + 1
    /\ LET id == nextId
           r == addConvertJob(World.q, id, urlOk, NoJob)
       IN IF ~r.canStart \/ ~startJobGuard(r.q, id)
          THEN Commit([World EXCEPT !.q = r.q])             \* 202 / 409
          ELSE Commit(startedHandler([World EXCEPT !.q = startJob(r.q, id, id)],
                                     id, "convert", urlOk, NoId))

\* streamDownload / convertMedia after the metadata await: validate, spawn
Spawn(j) ==
    /\ handler[j].pc = "info"
    /\ UNCHANGED nextId
    /\ IF ~handler[j].urlOk
       THEN Commit([World EXCEPT !.h[j].pc = "threw"])      \* next(error)
       ELSE LET hr == [handler[j] EXCEPT
                         !.pc = "streaming", !.child = "running",
                         !.ffmpeg = IF handler[j].kind = "convert" THEN "running" ELSE "none",
                         !.stdin = IF handler[j].kind = "convert" THEN "open" ELSE "none",
                         !.stream = "open", !.timer = TRUE]
            IN Commit([World EXCEPT
                         !.h[j] = hr,
                         !.s = IF hr.kind = "download"
                               THEN setSessionReferences(@, hr.did, j) ELSE @])

\* a stderr progress line or a counted chunk: progressService.updateProgress
Progress(j) ==
    /\ handler[j].kind = "download"
    /\ handler[j].child = "running"
    /\ UNCHANGED nextId
    /\ Commit(updateProgress(World, handler[j].did, counter[j], Null))

\* progressStream.flush: the extractor's stdout reached EOF
StreamFlush(j) ==
    /\ handler[j].kind = "download"
    /\ handler[j].stream = "open"
    /\ UNCHANGED nextId
    /\ LET d == handler[j].did
           w1 == markCompleted(updateProgress(World, d, counter[j], Null), d)
       IN Commit([w1 EXCEPT !.h[j].stream = "flushed"])

\* stream.on('end') of the route handler, the resolved await and the
\* registration of the close listeners
StreamEnd(j) ==
    /\ handler[j].pc = "streaming"
    /\ ~handler[j].gone
    /\ UNCHANGED nextId
    /\ \/ /\ handler[j].kind = "download"
          /\ handler[j].stream = "flushed"
          /\ LET w1 == [World EXCEPT !.q = completeJob(@, j)]
                 w2 == markCompleted(w1, handler[j].did)
             IN Commit([w2 EXCEPT !.h[j].stream = "ended", !.h[j].pc = "awaited"])
       \/ /\ handler[j].kind = "convert"
          /\ handler[j].stream = "open"
          /\ LET w1 == [World EXCEPT !.h[j].timer = FALSE,
                                     !.q = completeJob(@, j)]
             \* autoDestroy emits 'close', which runs cleanup
             IN Commit([w1 EXCEPT !.h[j] = [cleanupConvert([@ EXCEPT !.stream = "ended"])
                                              EXCEPT !.pc = "awaited"]])

\* the extractor exits: its 'exit' listener runs, then its 'close' listener
ChildExit(j, code) ==
    /\ \/ handler[j].child = "running"
       \/ handler[j].child = "sigkilled" /\ code = "exitSig"
    /\ UNCHANGED nextId
    /\ LET w1 == [World EXCEPT !.h[j].child = "closed"] IN
       IF handler[j].kind = "download"
       THEN Commit(downloadChildExited(downloadChildExited(w1, j, code), j, code))
       ELSE Commit(convertChildExited(convertChildExited(w1, j, code), j, code))

\* the transcoder exits: its 'exit' listener runs, then its 'close' listener
FfmpegExit(j, code) ==
    /\ \/ handler[j].ffmpeg = "running"
       \/ handler[j].ffmpeg = "sigkilled" /\ code = "exit1"
    /\ UNCHANGED nextId
    /\ LET w1 == [World EXCEPT !.h[j].ffmpeg = "closed"] IN
       Commit(ffmpegExited(ffmpegExited(w1, j, code, FALSE), j, code, TRUE))

\* the timeout armed on spawn expires
Timeout(j) ==
    /\ handler[j].timer
    /\ UNCHANGED nextId
    /\ LET w0 == [World EXCEPT !.h[j].timer = FALSE] IN
       IF handler[j].kind = "download"
       THEN IF handler[j].killed THEN Commit(w0)
            ELSE LET w1 == markError(w0, handler[j].did, ErrDownloadTimeout)
                     w2 == [w1 EXCEPT !.h[j].killed = TRUE, !.h[j].grace = "bare"]
                 IN Commit(destroyWithError(w2, j, ErrDownloadTimeout))
       ELSE LET w1 == [w0 EXCEPT
                         !.h[j].grace = IF w0.h[j].killed THEN @ ELSE "bare",
                         !.h[j].ffGrace = IF w0.h[j].ffKilled THEN @ ELSE "bare",
                         !.h[j].killed = TRUE, !.h[j].ffKilled = TRUE]
            IN Commit(destroyWithError(w1, j, ErrConversionTimeout))

\* 2 s have passed since SIGTERM was sent to the extractor: the SIGKILL
\* timer runs, if one was set with it
KillGraceElapsed(j) ==
    /\ handler[j].grace \in {"timer", "bare"}
    /\ UNCHANGED nextId
    /\ LET hr == IF handler[j].grace = "timer" THEN forceKill(handler[j]) ELSE handler[j]
       IN Commit([World EXCEPT !.h[j] = [hr EXCEPT !.grace = "over"]])

\* 2 s have passed since SIGTERM was sent to the transcoder
FfmpegKillGraceElapsed(j) ==
    /\ handler[j].ffGrace \in {"timer", "bare"}
    /\ UNCHANGED nextId
    /\ LET hr == IF handler[j].ffGrace = "timer"
                 THEN forceKillFfmpeg(handler[j]) ELSE handler[j]
       IN Commit([World EXCEPT !.h[j] = [hr EXCEPT !.ffGrace = "over"]])

\* the client goes away while the handler still awaits the stream: no
\* close listener is registered yet; the pipe to the response is removed
ClientDisconnect(j) ==
    /\ handler[j].pc = "streaming"
    /\ ~handler[j].gone
    /\ UNCHANGED nextId
    /\ Commit([World EXCEPT !.h[j].gone = TRUE])

\* req.on('close') then res.on('close'), registered after the await
RequestClose(j) ==
    /\ handler[j].pc = "awaited"
    /\ UNCHANGED nextId
    /\ LET isDl == handler[j].kind = "download"
           clean(hr) == IF isDl THEN cleanupDownload(hr) ELSE cleanupConvert(hr)
           live(q) == j \in DOMAIN q.jobs /\ q.jobs[j].status \notin TerminalStatus
           w1 == [World EXCEPT !.h[j] = clean(@)]
           w2 == IF live(w1.q) THEN [w1 EXCEPT !.q = failJob(@, j, ErrDisconnected)] ELSE w1
           w3 == [w2 EXCEPT !.h[j].stream = IF Destroyed(@) THEN @ ELSE "destroyed"]
           w4 == IF live(w3.q) /\ w3.q.jobs[j].status = (IF isDl THEN "downloading" ELSE "converting")
                 THEN [w3 EXCEPT !.q = failJob(@, j, ErrResponseClosed)] ELSE w3
       IN Commit([w4 EXCEPT !.h[j].pc = "finished"])

\* POST /api/queue/:jobId/cancel
CancelJob(j) ==
    /\ j \in DOMAIN jobs
    /\ UNCHANGED nextId
    /\ LET w1 == IF activeJob = j /\ jobs[j].downloadId # NoId
                 THEN cancelDownload(World, jobs[j].downloadId) ELSE World
       IN Commit([w1 EXCEPT !.q = cancelJob(@, j)])

\* POST /api/download/:downloadId/cancel
CancelDownload(d) ==
    /\ d \in DOMAIN sessions
    /\ UNCHANGED nextId
    /\ Commit(cancelDownload(World, d))

\* the timer cancelDownload sets: sessions.delete after 5 s
DelayedDelete(d) ==
    /\ d \in DOMAIN sessions
    /\ sessions[d].del
    /\ UNCHANGED nextId
    /\ Commit([World EXCEPT !.s = [k \in DOMAIN sessions \ {d} |-> sessions[k]]])

\* ProgressService.cleanupSessions: T are the terminal sessions older than 30 min
CleanupSessions(T) ==
    /\ T # {}
    /\ \A d \in T : sessions[d].status \in SessionTerminal
    /\ UNCHANGED nextId
    /\ Commit([World EXCEPT !.s = [k \in DOMAIN sessions \ T |-> sessions[k]]])

\* QueueService.cleanupOldJobs: T are the terminal jobs older than maxAge
CleanupOldJobs(T) ==
    /\ T # {}
    /\ \A j \in T : jobs[j].status \in TerminalStatus
    /\ UNCHANGED nextId
    /\ Commit([World EXCEPT !.q.jobs = [k \in DOMAIN jobs \ T |-> jobs[k]]])

Next ==
    \/ \E u \in BOOLEAN : AddDownloadJob(u)
    \/ \E u \in BOOLEAN, d \in {NoJob} \cup JobIds : AddConvertJob(u, d)
    \/ \E j \in JobIds : DownloadByJobId(j)
    \/ \E u \in BOOLEAN, d \in {NoId} \cup DOMAIN jobs : DownloadLegacy(u, d)
    \/ \E j \in JobIds : ConvertByJobId(j)
    \/ \E u \in BOOLEAN : ConvertLegacy(u)
    \/ \E j \in JobIds : Spawn(j)
    \/ \E j \in JobIds : Progress(j)
    \/ \E j \in JobIds : StreamFlush(j)
    \/ \E j \in JobIds : StreamEnd(j)
    \/ \E j \in JobIds, c \in ExitCodes : ChildExit(j, c)
    \/ \E j \in JobIds, c \in {"exit0", "exit1"} : FfmpegExit(j, c)
    \/ \E j \in JobIds : Timeout(j)
    \/ \E j \in JobIds : KillGraceElapsed(j)
    \/ \E j \in JobIds : FfmpegKillGraceElapsed(j)
    \/ \E j \in JobIds : ClientDisconnect(j)
    \/ \E j \in JobIds : RequestClose(j)
    \/ \E j \in JobIds : CancelJob(j)
    \/ \E d \in DownloadIds : CancelDownload(d)
    \/ \E d \in DownloadIds : DelayedDelete(d)
    \/ \E T \in SUBSET (DOMAIN sessions) : CleanupSessions(T)
    \/ \E T \in SUBSET (DOMAIN jobs) : CleanupOldJobs(T)

Spec == Init /\ [][Next]_vars

(* =================== the scheduler under its callers ==================== *)
\* SpecQueue drives QueueService alone.  Its callers are the route handlers
\* and the progress bus: a handler calls startJob for any job at any time,
\* and completeJob or failJob once, from the 'end' or 'error' listener of the
\* stream of the job it started; the bus publishes events under the download
\* id of a started job at any time.
QCommit(q) ==
    /\ jobs' = q.jobs
    /\ queue' = q.queue
    /\ activeJob' = q.activeJob
    /\ UNCHANGED <<sessions, counter, progress, published, client, limiter, filename, batch, url, valid>>

QAddDownloadJob ==
    /\ nextId <= MaxJobs
    /\ nextId' = nextId + 1
    /\ QCommit(addDownloadJob(World.q, nextId, FALSE).q)
    /\ UNCHANGED handler

QAddConvertJob(dependsOn) ==
    /\ nextId <= MaxJobs
    /\ LET r == addConvertJob(World.q, nextId, FALSE, dependsOn) IN
       /\ QCommit(r.q)
       /\ nextId' = IF r.ok THEN nextId + 1 ELSE nextId
    /\ UNCHANGED handler

\* startJob(jobId, jobId) from downloadHandler / convertHandler
QStartJob(j) ==
    /\ j \in DOMAIN jobs
    /\ QCommit(startJob(World.q, j, j))
    /\ handler' = IF startJobGuard(World.q, j)
                  THEN [handler EXCEPT ![j] = [NoHandler EXCEPT !.pc = "streaming"]]
                  ELSE handler
    /\ UNCHANGED nextId

\* completeJob from stream.on('end')
QCompleteJob(j) ==
    /\ handler[j].pc = "streaming"
    /\ QCommit(completeJob(World.q, j))
    /\ handler' = [handler EXCEPT ![j].pc = "awaited"]
    /\ UNCHANGED nextId

\* failJob from stream.on('error')
QFailJob(j, error) ==
    /\ handler[j].pc = "streaming"
    /\ QCommit(failJob(World.q, j, error))
    /\ handler' = [handler EXCEPT ![j].pc = "awaited"]
    /\ UNCHANGED nextId

QCancelJob(j) ==
    /\ j \in DOMAIN jobs
    /\ QCommit(cancelJob(World.q, j))
    /\ UNCHANGED <<handler, nextId>>

\* a progress event the listener matches to job j.  The event carries the
\* download id of a started job: it comes from that job's own download, or
\* from a legacy download the client started under the same download_id.
QProgress(j, status) ==
    /\ j \in DOMAIN jobs
    /\ jobs[j].downloadId # NoId
    /\ QCommit(onProgressJob(World.q, j, status,
                             IF status = "error" THEN ErrExitCode ELSE NoError))
    /\ UNCHANGED <<handler, nextId>>

QCleanupOldJobs(T) ==
    /\ T # {}
    /\ \A j \in T : jobs[j].status \in TerminalStatus
    /\ QCommit([World.q EXCEPT !.jobs = [k \in DOMAIN jobs \ T |-> jobs[k]]])
    /\ UNCHANGED <<handler, nextId>>

QNext ==
    \/ QAddDownloadJob
    \/ \E d \in {NoJob} \cup JobIds : QAddConvertJob(d)
    \/ \E j \in JobIds : QStartJob(j)
    \/ \E j \in JobIds : QCompleteJob(j)
    \/ \E j \in JobIds : QFailJob(j, ErrExitCode)
    \/ \E j \in JobIds : QCancelJob(j)
    \/ \E j \in JobIds, st \in {"downloading", "completed", "error", "cancelled"} :
            QProgress(j, st)
    \/ \E T \in SUBSET (DOMAIN jobs) : QCleanupOldJobs(T)

SpecQueue == Init /\ [][QNext]_vars

(* ================= the progress bus under legacy downloads ============== *)
\* SpecProgress is the program restricted to GET /api/download requests of
\* the legacy form, all naming one download_id, and the cancel endpoint, with
\* the byte counts kept: the closure's counter, the byte fields of
\* session.progress and the emitted events.

\* the download_id every request of the run names
SharedId == 1
\* the chunk lengths the extractor's stdout delivers
ChunkSizes == {32768, 49152, 65536}
\* the transform reports every 64 KiB
ReportEvery == 65536
\* "[download] 12.3% of <totalStr><unit>": totalStr in hundredths, and unit
ProgressLines == {<<3200, "KIB">>, <<6400, "KIB">>}

\* unit.toUpperCase() and the conversion table, a quarter of the multiplier
QuarterUnit(unit) ==
    IF unit = "KIB" THEN 256
    ELSE IF unit = "MIB" THEN 262144
    ELSE 268435456

\* Math.round(parseFloat(totalStr) * multiplier)
parseTotal(line) == (2 * line[1] * QuarterUnit(line[2]) + 25) \div 50

\* totalBytes ? Math.round((bytesDownloaded / totalBytes) * 100) : null
Percentage(bytesDownloaded, totalBytes) ==
    IF totalBytes = Null \/ totalBytes = 0 THEN Null
    ELSE (200 * bytesDownloaded + totalBytes) \div (2 * totalBytes)

\* the progress object createSession stores
InitialProgress == [bytesDownloaded |-> 0, totalBytes |-> Null, percentage |-> Null]

\* session.progress = {...}: the byte fields after the write e records
written(pr, e) ==
    IF e.status = "downloading"
    THEN [bytesDownloaded |-> e.bytesDownloaded, totalBytes |-> e.totalBytes,
          percentage |-> Percentage(e.bytesDownloaded, e.totalBytes)]
    ELSE IF e.status = "completed" THEN [pr EXCEPT !.percentage = 100]
    ELSE pr

\* the writes of one step applied in order; out are the emitted objects
RECURSIVE Publish(_, _, _)
Publish(pm, ev, out) ==
    IF ev = <<>> THEN [pm |-> pm, out |-> out]
    ELSE LET e == Head(ev)
             pr == written(pm[e.downloadId], e)
         IN Publish([pm EXCEPT ![e.downloadId] = pr], Tail(ev),
                    Append(out, [downloadId |-> e.downloadId, status |-> e.status,
                                 bytesDownloaded |-> pr.bytesDownloaded,
                                 totalBytes |-> pr.totalBytes,
                                 percentage |-> pr.percentage]))

\* res.write of progressHandler: one SSE message
Message(type, body) == [type |-> type, body |-> body]

\* { type: 'connected', downloadId }
Connected(downloadId) ==
    Message("connected", [downloadId |-> downloadId, status |-> "",
                          bytesDownloaded |-> Null, totalBytes |-> Null,
                          percentage |-> Null])

progressListener_AnyKnownId(c, e) ==
    IF c.open /\ e.downloadId \in DownloadIds
    THEN [c EXCEPT !.messages = Append(@, Message("progress", e))]
    ELSE c

progressListener_Unfiltered(c, e) ==
    IF c.open THEN [c EXCEPT !.messages = Append(@, Message("progress", e))] ELSE c

\* the listener progressHandler registers on the bus; it is removed on close
progressListener(c, e) ==
    IF c.open /\ e.downloadId = c.downloadId
    THEN [c EXCEPT !.messages = Append(@, Message("progress", e))]
    ELSE c

\* emit('progress', ..) calls the listener once per event, in emission order
RECURSIVE deliver(_, _)
deliver(c, out) ==
    IF out = <<>> THEN c ELSE deliver(progressListener(c, Head(out)), Tail(out))

\* the counter is read by the transform and by the stderr listener only
PCommitC(w, c) ==
    /\ Control(w)
    /\ counter' = [j \in JobIds |->
                     IF Norm(w.h[j]).stream = "open" \/ Norm(w.h[j]).child = "running"
                     THEN c[j] ELSE 0]
    /\ LET pm0 == [d \in DOMAIN progress \cup DOMAIN w.s |->
                     IF d \in DOMAIN progress THEN progress[d] ELSE InitialProgress]
           r == Publish(pm0, w.ev, <<>>)
       IN /\ progress' = [d \in DOMAIN w.s |-> r.pm[d]]
          /\ published' = r.out
          /\ client' = deliver(client, r.out)
    /\ UNCHANGED <<limiter, filename, batch, url, valid>>

PCommit(w) == PCommitC(w, counter)

\* GET /api/download?url=..&format_id=..[&download_id=..]
PDownloadLegacy(urlOk, download_id) ==
    /\ nextId <= MaxProgramJobs
    /\ nextId' = nextId + 1
    /\ PCommit(downloadLegacy(World, nextId, urlOk, download_id).w)

\* streamDownload after the metadata await: validate, spawn, counter at 0
PSpawn(j) ==
    /\ handler[j].pc = "info"
    /\ UNCHANGED nextId
    /\ IF ~handler[j].urlOk
       THEN PCommit([World EXCEPT !.h[j].pc = "threw"])
       ELSE LET hr == [handler[j] EXCEPT
                         !.pc = "streaming", !.child = "running",
                         !.stream = "open", !.timer = TRUE]
            IN PCommitC([World EXCEPT !.h[j] = hr,
                                      !.s = setSessionReferences(@, hr.did, j)],
                        [counter EXCEPT ![j] = 0])

\* progressStream.transform: count the chunk, report every 64 KiB
transform(j, length) ==
    /\ handler[j].stream = "open"
    /\ counter[j] + length <= MaxBytes
    /\ UNCHANGED nextId
    /\ LET bytesDownloaded == counter[j] + length
           w1 == IF bytesDownloaded % ReportEvery = 0 \/ length >= ReportEvery
                 THEN updateProgress(World, handler[j].did, bytesDownloaded, Null)
                 ELSE World
       IN PCommitC(w1, [counter EXCEPT ![j] = bytesDownloaded])

\* ytDlpProcess.stderr.on('data') with a line the regular expression matches
stderrData(j, line) ==
    /\ handler[j].kind = "download"
    /\ handler[j].child = "running"
    /\ UNCHANGED nextId
    /\ PCommit(updateProgress(World, handler[j].did, counter[j], parseTotal(line)))

\* progressStream.flush
flush(j) ==
    /\ handler[j].stream = "open"
    /\ UNCHANGED nextId
    /\ LET d == handler[j].did
           w1 == markCompleted(updateProgress(World, d, counter[j], Null), d)
       IN PCommit([w1 EXCEPT !.h[j].stream = "flushed"])

\* stream.on('end') of downloadHandler
PStreamEnd(j) ==
    /\ handler[j].pc = "streaming"
    /\ ~handler[j].gone
    /\ handler[j].stream = "flushed"
    /\ UNCHANGED nextId
    /\ LET w1 == [World EXCEPT !.q = completeJob(@, j)]
           w2 == markCompleted(w1, handler[j].did)
       IN PCommit([w2 EXCEPT !.h[j].stream = "ended", !.h[j].pc = "awaited"])

\* the extractor exits: 'exit' listener, then 'close' listener
PChildExit(j, code) ==
    /\ handler[j].child = "running"
    /\ UNCHANGED nextId
    /\ LET w1 == [World EXCEPT !.h[j].child = "closed"]
       IN PCommit(downloadChildExited(downloadChildExited(w1, j, code), j, code))

\* the timeout callback of streamDownload
PTimeout(j) ==
    /\ handler[j].timer
    /\ UNCHANGED nextId
    /\ LET w0 == [World EXCEPT !.h[j].timer = FALSE] IN
       IF handler[j].killed THEN PCommit(w0)
       ELSE LET w1 == markError(w0, handler[j].did, ErrDownloadTimeout)
                w2 == [w1 EXCEPT !.h[j].killed = TRUE, !.h[j].grace = "bare"]
            IN PCommit(destroyWithError(w2, j, ErrDownloadTimeout))

\* req.on('close') then res.on('close') of downloadHandler
PRequestClose(j) ==
    /\ handler[j].pc = "awaited"
    /\ UNCHANGED nextId
    /\ LET live(q) == j \in DOMAIN q.jobs /\ q.jobs[j].status \notin TerminalStatus
           w1 == [World EXCEPT !.h[j] = cleanupDownload(@)]
           w2 == IF live(w1.q) THEN [w1 EXCEPT !.q = failJob(@, j, ErrDisconnected)] ELSE w1
           w3 == [w2 EXCEPT !.h[j].stream = IF Destroyed(@) THEN @ ELSE "destroyed"]
           w4 == IF live(w3.q) /\ w3.q.jobs[j].status = "downloading"
                 THEN [w3 EXCEPT !.q = failJob(@, j, ErrResponseClosed)] ELSE w3
       IN PCommit([w4 EXCEPT !.h[j].pc = "finished"])

\* POST /api/download/:downloadId/cancel
PCancelDownload(d) ==
    /\ d \in DOMAIN sessions
    /\ UNCHANGED nextId
    /\ PCommit(cancelDownload(World, d))

\* the timer cancelDownload sets: sessions.delete after 5 s
PDelayedDelete(d) ==
    /\ d \in DOMAIN sessions
    /\ sessions[d].del
    /\ UNCHANGED nextId
    /\ PCommit([World EXCEPT !.s = [k \in DOMAIN sessions \ {d} |-> sessions[k]]])

\* ProgressService.cleanupSessions
PCleanupSessions(T) ==
    /\ T # {}
    /\ \A d \in T : sessions[d].status \in SessionTerminal
    /\ UNCHANGED nextId
    /\ PCommit([World EXCEPT !.s = [k \in DOMAIN sessions \ T |-> sessions[k]]])

PNext ==
    \/ \E u \in BOOLEAN : PDownloadLegacy(u, SharedId)
    \/ \E j \in JobIds : PSpawn(j)
    \/ \E j \in JobIds, n \in ChunkSizes : transform(j, n)
    \/ \E j \in JobIds, l \in ProgressLines : stderrData(j, l)
    \/ \E j \in JobIds : flush(j)
    \/ \E j \in JobIds : PStreamEnd(j)
    \/ \E j \in JobIds, c \in ExitCodes : PChildExit(j, c)
    \/ \E j \in JobIds : PTimeout(j)
    \/ \E j \in JobIds : PRequestClose(j)
    \/ \E d \in DownloadIds : PCancelDownload(d)
    \/ \E d \in DownloadIds : PDelayedDelete(d)
    \/ \E T \in SUBSET (DOMAIN sessions) : PCleanupSessions(T)

SpecProgress == Init /\ [][PNext]_vars


(* ============================ the URL policy ============================ *)
\* SpecUrl calls isValidUrl on URL strings, as analyze, streamDownload and
\* convertMedia do.  new URL(url) is modelled on strings of the form
\* scheme://host/path with the host in its serialised form: it lower-cases
\* the scheme and the host, keeps the brackets of an IPv6 literal, and throws
\* when the scheme or the host of an http(s) URL is missing.

MaxUrlLength == 2048

Upper == <<"A", "C", "H", "L", "O", "P", "S", "T">>
Lower == <<"a", "c", "h", "l", "o", "p", "s", "t">>

toLowerCase(str) ==
    [i \in 1..Len(str) |->
        IF \E k \in 1..Len(Upper) : Upper[k] = str[i]
        THEN Lower[CHOOSE k \in 1..Len(Upper) : Upper[k] = str[i]]
        ELSE str[i]]

\* /^prefix/.test(str)
StartsWith(str, prefix) ==
    /\ Len(str) >= Len(prefix)
    /\ SubSeq(str, 1, Len(prefix)) = prefix

Str_localhost == <<"l", "o", "c", "a", "l", "h", "o", "s", "t">>
Str_127 == <<"1", "2", "7", ".">>
Str_192_168 == <<"1", "9", "2", ".", "1", "6", "8", ".">>
Str_10 == <<"1", "0", ".">>
Str_172 == <<"1", "7", "2", ".">>
Str_0000 == <<"0", ".", "0", ".", "0", ".", "0">>
Str_127_0_0_1 == <<"1", "2", "7", ".", "0", ".", "0", ".", "1">>
Str_loopback6 == <<":", ":", "1">>
Str_file == <<"f", "i", "l", "e", ":">>
Str_ftp == <<"f", "t", "p", ":">>
Str_data == <<"d", "a", "t", "a", ":">>
Str_javascript == <<"j", "a", "v", "a", "s", "c", "r", "i", "p", "t", ":">>
Str_vbscript == <<"v", "b", "s", "c", "r", "i", "p", "t", ":">>
Str_http == <<"h", "t", "t", "p">>
Str_https == <<"h", "t", "t", "p", "s">>

\* /^172\.(1[6-9]|2[0-9]|3[0-1])\./
Private172(str) ==
    /\ StartsWith(str, Str_172)
    /\ Len(str) >= 7
    /\ \/ str[5] = "1" /\ str[6] \in {"6", "7", "8", "9"}
       \/ str[5] = "2" /\ str[6] \in {"0", "1", "2", "3", "4", "5", "6", "7", "8", "9"}
       \/ str[5] = "3" /\ str[6] \in {"0", "1"}
    /\ str[7] = "."

\* some pattern of BLOCKED_PATTERNS matches
BLOCKED_PATTERNS(hostname) ==
    \/ StartsWith(hostname, Str_localhost)
    \/ StartsWith(hostname, Str_127)
    \/ StartsWith(hostname, Str_192_168)
    \/ StartsWith(hostname, Str_10)
    \/ Private172(hostname)
    \/ StartsWith(hostname, Str_0000)
    \/ StartsWith(hostname, Str_file)
    \/ StartsWith(hostname, Str_ftp)
    \/ StartsWith(hostname, Str_data)
    \/ StartsWith(hostname, Str_javascript)
    \/ StartsWith(hostname, Str_vbscript)

\* new URL(u) throws: no scheme, or an http(s) URL without a host
urlThrows(u) ==
    \/ u.scheme = <<>>
    \/ toLowerCase(u.scheme) \in {Str_http, Str_https} /\ u.host = <<>>

isValidUrl(u) ==
    IF u.length = 0 THEN FALSE
    ELSE IF u.length > MaxUrlLength THEN FALSE
    ELSE IF urlThrows(u) THEN FALSE
    ELSE IF toLowerCase(u.scheme) \notin {Str_http, Str_https} THEN FALSE
    ELSE LET hostname == toLowerCase(u.host) IN
         IF BLOCKED_PATTERNS(hostname) THEN FALSE
         ELSE IF hostname \in {Str_localhost, Str_127_0_0_1, Str_loopback6} THEN FALSE
         ELSE IF Len(hostname) = 0 THEN FALSE
         ELSE TRUE

\* the URL strings of the run
Schemes == {<<>>, Str_http, Str_https, <<"H", "T", "T", "P">>,
            <<"f", "t", "p">>, <<"f", "i", "l", "e">>,
            <<"j", "a", "v", "a", "s", "c", "r", "i", "p", "t">>}
Hosts ==
    {<<>>,
     Str_localhost,
     <<"L", "O", "C", "A", "L", "H", "O", "S", "T">>,
     Str_127_0_0_1,
     <<"1", "2", "7", ".", "9", ".", "9", ".", "9">>,
     <<"1", "0", ".", "0", ".", "0", ".", "1">>,
     <<"1", "0", "0", ".", "0", ".", "0", ".", "1">>,
     <<"1", "9", "2", ".", "1", "6", "8", ".", "1", ".", "1">>,
     <<"1", "7", "2", ".", "1", "6", ".", "0", ".", "1">>,
     <<"1", "7", "2", ".", "3", "1", ".", "0", ".", "1">>,
     <<"1", "7", "2", ".", "1", "5", ".", "0", ".", "1">>,
     <<"1", "7", "2", ".", "3", "2", ".", "0", ".", "1">>,
     Str_0000,
     <<"[", ":", ":", "1", "]">>,
     <<"a", ".", "c", "o">>}
Lengths == {64, MaxUrlLength, MaxUrlLength + 1}
Urls == [scheme : Schemes, host : Hosts, length : Lengths]

\* a caller passes u to isValidUrl
Validate(u) ==
    /\ url' = u
    /\ valid' = isValidUrl(u)
    /\ UNCHANGED <<jobs, queue, activeJob, nextId, sessions, handler, counter,
                   progress, published, client, limiter, filename, batch>>

UNext == \E u \in Urls : Validate(u)

SpecUrl == Init /\ [][UNext]_vars

(* ===================== batchAnalyzeHandler: POST /analyze/batch ========= *)
MAX_BATCH_SIZE == 20
\* number of entries of the batches that are written out entry by entry
MaxEntries == 3

ErrNoUrls == "At least one URL is required"
ErrTooManyUrls == "Maximum 20 URLs allowed per batch"
ErrNoValidUrls == "No valid URLs found"
ErrInvalidUrl == "Invalid URL format"
ErrAnalyze == "Failed to analyze URL"

EmptyString == [scheme |-> <<>>, host |-> <<>>, length |-> 0]

\* the entries of req.body.urls: a value that is no string, a string of
\* white space, and three URLs, each with white space around it
BatchEntries ==
    {[string |-> FALSE, text |-> EmptyString],
     [string |-> TRUE, text |-> EmptyString],
     [string |-> TRUE, text |-> [scheme |-> Str_https, host |-> <<"a", ".", "c", "o">>,
                                 length |-> 64]],
     [string |-> TRUE, text |-> [scheme |-> <<"f", "t", "p">>, host |-> <<"a", ".", "c", "o">>,
                                 length |-> 64]],
     [string |-> TRUE, text |-> [scheme |-> Str_http, host |-> <<"[", ":", ":", "1", "]">>,
                                 length |-> 64]]}

\* every batch of up to MaxEntries entries, and the batches of MAX_BATCH_SIZE
\* and MAX_BATCH_SIZE + 1 copies of one entry
Batches ==
    UNION {[1..n -> BatchEntries] : n \in 0..MaxEntries}
      \cup {[i \in 1..n |-> e] : n \in {MAX_BATCH_SIZE, MAX_BATCH_SIZE + 1}, e \in BatchEntries}

\* typeof url === 'string' ? url.trim() : ''
trim(entry) == IF entry.string THEN entry.text ELSE EmptyString

\* urls.map(trim).filter(url => url.length > 0 && isValidUrl(url))
validUrls(urls) ==
    SelectSeq([i \in 1..Len(urls) |-> trim(urls[i])],
              LAMBDA u : u.length > 0 /\ isValidUrl(u))

\* urls.map(trim).filter(non-empty and not valid).map(failed item)
invalidUrls(urls) ==
    LET bad == SelectSeq([i \in 1..Len(urls) |-> trim(urls[i])],
                         LAMBDA u : u.length > 0 /\ ~isValidUrl(u))
    IN [i \in 1..Len(bad) |-> [url |-> bad[i], success |-> FALSE, error |-> ErrInvalidUrl]]

BadRequest(urls, message) ==
    [NoBatch EXCEPT !.urls = urls, !.status = 400, !.message = message]

\* batchAnalyzeHandler up to its await: the checks of the request, then
\* analyzeUrl is called on every valid URL
batchAnalyzeHandler(urls) ==
    IF Len(urls) = 0 THEN BadRequest(urls, ErrNoUrls)
    ELSE IF Len(urls) > MAX_BATCH_SIZE THEN BadRequest(urls, ErrTooManyUrls)
    ELSE IF Len(validUrls(urls)) = 0 THEN BadRequest(urls, ErrNoValidUrls)
    ELSE [NoBatch EXCEPT !.urls = urls, !.analyzed = validUrls(urls)]

\* batchAnalyzeHandler after Promise.all: analyzeUrl has thrown for the valid
\* URLs at the positions in failing
batchAnalyzeResponse(b, failing) ==
    LET results == [i \in 1..Len(b.analyzed) |->
                      [url |-> b.analyzed[i],
                       success |-> i \notin failing,
                       error |-> IF i \in failing THEN ErrAnalyze ELSE ""]]
        successful == Len(SelectSeq(results, LAMBDA r : r.success))
        failed == Len(results) - successful
        allResults == results \o invalidUrls(b.urls)
    IN [b EXCEPT !.status = 200,
                 !.results = allResults,
                 !.total = Len(allResults),
                 !.successful = successful,
                 !.failed = failed + Len(invalidUrls(b.urls))]

BatchStep(b) ==
    /\ batch' = b
    /\ UNCHANGED <<jobs, queue, activeJob, nextId, sessions, handler, counter,
                   progress, published, client, limiter, filename, url, valid>>

\* POST /api/analyze/batch {urls}
BatchAnalyze(urls) ==
    /\ batch = NoBatch
    /\ BatchStep(batchAnalyzeHandler(urls))

\* every analysis has settled
AnalysesSettled(failing) ==
    /\ batch.status = 0
    /\ batch.analyzed # <<>>
    /\ BatchStep(batchAnalyzeResponse(batch, failing))

BNext ==
    \/ \E urls \in Batches : BatchAnalyze(urls)
    \/ \E failing \in SUBSET (1..MaxEntries) : AnalysesSettled(failing)

SpecBatch == Init /\ [][BNext]_vars

(* ============================= safeFilename ============================= *)
\* A string is the sequence of its characters.

\* .slice(0, 100)
SliceLength == 100
\* \w, \s and the characters the first replace keeps besides them
WordChars == {"a", "b", "d", "l", "n", "o", "w", "_"}
SpaceChars == {" "}
KeptChars == WordChars \cup SpaceChars \cup {".", "-"}
Str_download == <<"d", "o", "w", "n", "l", "o", "a", "d">>

\* .replace(/[^\w\s.-]/g, '')
removeSpecial(s) == SelectSeq(s, LAMBDA c : c \in KeptChars)

\* .replace(/\s+/g, '_') and .replace(/_{2,}/g, '_'): every maximal run of
\* characters of the class becomes one underscore
collapse(s, class) ==
    LET marked == [i \in 1..Len(s) |->
                      IF s[i] \notin class THEN s[i]
                      ELSE IF i > 1 /\ s[i - 1] \in class THEN "" ELSE "_"]
    IN SelectSeq(marked, LAMBDA c : c # "")

\* .replace(/^_+|_+$/g, '') and .trim(): the characters of the class are
\* removed at both ends
strip(s, class) ==
    LET keep == {i \in 1..Len(s) : s[i] \notin class} IN
    IF keep = {} THEN <<>>
    ELSE SubSeq(s, Min(keep), CHOOSE i \in keep : \A k \in keep : k <= i)

\* .slice(0, 100)
slice(s) == SubSeq(s, 1, IF Len(s) < SliceLength THEN Len(s) ELSE SliceLength)

safeFilename(name) ==
    IF name = <<>> THEN Str_download
    ELSE LET r == strip(slice(strip(collapse(collapse(removeSpecial(name), SpaceChars),
                                             {"_"}),
                                    {"_"})),
                        SpaceChars)
         IN IF r = <<>> THEN Str_download ELSE r

\* titles: a run of n word characters followed by a few characters of any
\* kind, so that the cap of 100 falls before, inside or after the tail
MaxTail == 3
TitleChars == {"a", "_", " ", "!", "-"}
FillLengths == {0} \cup ((SliceLength - MaxTail)..SliceLength)
Tails == UNION {[1..n -> TitleChars] : n \in 0..MaxTail}
Titles == {[i \in 1..n |-> "b"] \o t : n \in FillLengths, t \in Tails}

\* what safeFilename is given and what it returns
sanitized(name) == [name |-> name, safe |-> safeFilename(name)]

\* safeFilename(downloadInfo.filename) in downloadHandler
Sanitize(name) ==
    /\ filename = NoFilename
    /\ filename' = sanitized(name)
    /\ UNCHANGED <<jobs, queue, activeJob, nextId, sessions, handler, counter,
                   progress, published, client, limiter, batch, url, valid>>

\* the sanitized name is given to safeFilename again
Resanitize ==
    /\ filename # NoFilename
    /\ filename' = sanitized(filename.safe)
    /\ UNCHANGED <<jobs, queue, activeJob, nextId, sessions, handler, counter,
                   progress, published, client, limiter, batch, url, valid>>

FNext ==
    \/ \E name \in Titles : Sanitize(name)
    \/ Resanitize

SpecFilename == Init /\ [][FNext]_vars

(* ================== the global rate limiter as mounted ================== *)
\* SpecLimit is the middleware chain of the application in front of the
\* routes, as far as apiRateLimiter is concerned.  A request path is the
\* sequence of its segments: <<"api", "queue", "1">> is /api/queue/1.  No
\* segment of RequestPaths is a proper prefix of another, so that
\* String.startsWith on the joined path is a prefix test on segments.

\* max: parseInt(process.env.RATE_LIMIT_MAX || '100', 10)
RateLimitMax == 3

RequestPaths ==
    {<<"health">>,
     <<"api", "progress", "1">>, <<"api", "progress", "1", "status">>,
     <<"api", "queue">>, <<"api", "queue", "1">>, <<"api", "queue", "download">>,
     <<"api", "download">>, <<"api", "analyze">>, <<"api", "proxy", "image">>}

\* path.startsWith(prefix)
PathStartsWith(path, prefix) ==
    Len(path) >= Len(prefix) /\ SubSeq(path, 1, Len(prefix)) = prefix

\* the skip option: req.path is a non-empty string ("/" at least), so the
\* originalUrl alternative of the || chain is never taken
skip(req) ==
    LET path == req.path IN
    \/ path = <<"health">>
    \/ PathStartsWith(path, <<"api", "progress">>)
    \/ PathStartsWith(path, <<"api", "queue">>)

\* rateLimit({...}): a skipped request is passed on uncounted; any other one
\* is counted under its key and rejected with 429 once the count exceeds max
apiRateLimiter(l, req) ==
    IF skip(req)
    THEN [l EXCEPT !.counted = FALSE, !.rejected = FALSE]
    ELSE [l EXCEPT !.hits[req.ip] = @ + 1,
                   !.counted = TRUE,
                   !.rejected = l.hits[req.ip] + 1 > RateLimitMax]

\* app.use('/api', apiRateLimiter): the middleware runs for the paths under
\* /api, with the mount path stripped from req.url and so from req.path
use(mountPath, l, originalPath, ip) ==
    LET seen == [l EXCEPT !.path = originalPath, !.ip = ip,
                          !.counted = FALSE, !.rejected = FALSE]
    IN IF PathStartsWith(originalPath, mountPath)
       THEN apiRateLimiter(seen,
                [path |-> SubSeq(originalPath, Len(mountPath) + 1, Len(originalPath)),
                 originalUrl |-> originalPath, ip |-> ip])
       ELSE seen

\* a request arrives
Request(ip, originalPath) ==
    /\ limiter.hits[ip] <= RateLimitMax
    /\ limiter' = use(<<"api">>, limiter, originalPath, ip)
    /\ UNCHANGED <<jobs, queue, activeJob, nextId, sessions, handler, counter,
                   progress, published, client, filename, batch, url, valid>>

\* windowMs has passed for the key: its count starts again
WindowReset(ip) ==
    /\ limiter.hits[ip] > 0
    /\ limiter' = [limiter EXCEPT !.hits[ip] = 0]
    /\ UNCHANGED <<jobs, queue, activeJob, nextId, sessions, handler, counter,
                   progress, published, client, filename, batch, url, valid>>

LNext ==
    \/ \E ip \in ClientIps, p \in RequestPaths : Request(ip, p)
    \/ \E ip \in ClientIps : WindowReset(ip)

SpecLimit == Init /\ [][LNext]_vars

(* ============== the progress bus and one subscribed client ============== *)
\* SpecSubscribe is ProgressService under any sequence of the calls its
\* callers make, with one client of GET /api/progress/:downloadId.  The
\* calls name SharedId, or another download that is created and reports
\* progress.

\* messages kept per connection
MaxMessages == 4
\* the download ids of the run: the subscribed one or another one
SubscribeIds == {SharedId, SharedId + 1}
\* the byte counts and totals the callers report
ReportedBytes == {ReportEvery}
ReportedTotals == {Null}

Room == Len(client.messages) < MaxMessages

\* getProgress(downloadId): session.progress, or null
getProgress(downloadId) ==
    [downloadId |-> downloadId, status |-> sessions[downloadId].status,
     bytesDownloaded |-> progress[downloadId].bytesDownloaded,
     totalBytes |-> progress[downloadId].totalBytes,
     percentage |-> progress[downloadId].percentage]

\* progressHandler up to its return: connected, the current progress if the
\* session exists, then the listener is registered
progressHandler(downloadId) ==
    [downloadId |-> downloadId, open |-> TRUE,
     messages |-> IF downloadId \in DOMAIN sessions
                  THEN <<Connected(downloadId),
                         Message("progress", getProgress(downloadId))>>
                  ELSE <<Connected(downloadId)>>]

\* the steps of the connection publish nothing and touch no service state
ClientStep(c) ==
    /\ client' = c
    /\ published' = <<>>
    /\ UNCHANGED <<jobs, queue, activeJob, nextId, sessions, handler, counter,
                   progress, limiter, filename, batch, url, valid>>

\* GET /api/progress/:downloadId
Subscribe(downloadId) ==
    /\ client = NoClient
    /\ ClientStep(progressHandler(downloadId))

\* the 30 s interval
Heartbeat ==
    /\ client.open
    /\ Room
    /\ ClientStep([client EXCEPT !.messages =
                      Append(@, Message("heartbeat", Connected(NoId).body))])

\* req.on('close'): removeListener, res.end
ClientClose ==
    /\ client.open
    /\ ClientStep([client EXCEPT !.open = FALSE])

SCreateSession(d) ==
    /\ d \notin DOMAIN sessions
    /\ UNCHANGED nextId
    /\ PCommit([World EXCEPT !.s = createSession(@, d)])

SUpdateProgress(d, bytesDownloaded, totalBytes) ==
    /\ Room
    /\ UNCHANGED nextId
    /\ PCommit(updateProgress(World, d, bytesDownloaded, totalBytes))

SMarkCompleted(d) ==
    /\ Room
    /\ UNCHANGED nextId
    /\ PCommit(markCompleted(World, d))

SMarkError(d) ==
    /\ Room
    /\ UNCHANGED nextId
    /\ PCommit(markError(World, d, ErrExitCode))

SCancelDownload(d) ==
    /\ Room
    /\ PCancelDownload(d)

SNext ==
    \/ \E d \in SubscribeIds : Subscribe(d)
    \/ Heartbeat
    \/ ClientClose
    \/ \E d \in SubscribeIds : SCreateSession(d)
    \/ \E d \in SubscribeIds, b \in ReportedBytes, t \in ReportedTotals :
            SUpdateProgress(d, b, t)
    \/ SMarkCompleted(SharedId)
    \/ SMarkError(SharedId)
    \/ SCancelDownload(SharedId)
    \/ PDelayedDelete(SharedId)

SpecSubscribe == Init /\ [][SNext]_vars

(* ===================== conversions alone: convertMedia ================== *)
\* The convert route and the events of the processes and streams it starts:
\* the extractor piped into the transcoder, their exits, the timeout, the
\* SIGKILL timers, the client going away, and the cancel route.  The close
\* listeners of the convert route are registered after the stream has ended
\* or failed, when cleanup has already run: they have nothing left to do.
CNext ==
    \/ \E urlOk \in BOOLEAN : ConvertLegacy(urlOk)
    \/ \E j \in JobIds : ConvertByJobId(j)
    \/ \E j \in JobIds : Spawn(j)
    \/ \E j \in JobIds : StreamEnd(j)
    \/ \E j \in JobIds, code \in ExitCodes : ChildExit(j, code)
    \/ \E j \in JobIds, code \in ExitCodes : FfmpegExit(j, code)
    \/ \E j \in JobIds : Timeout(j)
    \/ \E j \in JobIds : KillGraceElapsed(j)
    \/ \E j \in JobIds : FfmpegKillGraceElapsed(j)
    \/ \E j \in JobIds : ClientDisconnect(j)
    \/ \E j \in JobIds : CancelJob(j)

SpecConvert == Init /\ [][CNext]_vars


(* ================================ claims ================================ *)
InQueue(j) == \E i \in 1..Len(queue) : queue[i] = j
Survivors == DOMAIN jobs \cap DOMAIN jobs'

\* the terminal operations a caller can apply to job j in the current state:
\* cancelJob at any time, completeJob and failJob from the handler that
\* started j and still awaits its stream
TerminalOps(j) ==
    {cancelJob(World.q, j)} \cup
    (IF handler[j].pc = "streaming"
     THEN {completeJob(World.q, j), failJob(World.q, j, ErrExitCode)}
     ELSE {})

\* C1: at most one job has status downloading or converting, and any such
\* job is the one activeJob names.
C1_SingleActiveJob ==
    LET active == {j \in DOMAIN jobs : jobs[j].status \in ActiveStatus} IN
    /\ Cardinality(active) <= 1
    /\ \A j \in active : activeJob = j

\* a job is active while the head of the queue is ready to start
C1_Witness ==
    /\ activeJob \in DOMAIN jobs
    /\ jobs[activeJob].status \in ActiveStatus
    /\ queue # <<>>
    /\ Head(queue) \in DOMAIN jobs
    /\ canJobStart(jobs, jobs[Head(queue)])

\* C2: every change of a job's status is queued -> downloading (download
\* jobs), queued -> converting (convert jobs), downloading/converting ->
\* completed, downloading/converting -> failed, or queued -> failed.
C2_StatusAutomaton ==
    [][\A j \in Survivors :
          jobs[j].status # jobs'[j].status =>
             \/ /\ jobs[j].status = "queued"
                /\ jobs'[j].status = "downloading"
                /\ jobs[j].type = "download"
             \/ /\ jobs[j].status = "queued"
                /\ jobs'[j].status = "converting"
                /\ jobs[j].type = "convert"
             \/ /\ jobs[j].status \in ActiveStatus
                /\ jobs'[j].status \in TerminalStatus
             \/ /\ jobs[j].status = "queued"
                /\ jobs'[j].status = "failed"]_vars

\* C3: once a job is completed or failed, no later completeJob, failJob,
\* cancelJob or progress event changes its status or its error.
C3_TerminalIsFinal ==
    [][\A j \in Survivors :
          jobs[j].status \in TerminalStatus =>
             /\ jobs'[j].status = jobs[j].status
             /\ jobs'[j].error = jobs[j].error]_vars

\* C4: a convert job with dependsOn = d goes from queued to converting only
\* in a state where job d exists and is completed.
C4_ConvertStartsAfterDependency ==
    [][\A k \in Survivors :
          (/\ jobs[k].dependsOn # NoJob
           /\ jobs[k].status = "queued"
           /\ jobs'[k].status = "converting") =>
             /\ jobs[k].dependsOn \in DOMAIN jobs
             /\ jobs[jobs[k].dependsOn].status = "completed"]_vars

\* a dependent convert job is converting
C4_Witness ==
    \E k \in DOMAIN jobs :
        /\ jobs[k].dependsOn \in DOMAIN jobs
        /\ jobs[k].status = "converting"
        /\ activeJob = k
        /\ jobs[jobs[k].dependsOn].status = "completed"

\* C5: whenever a download job is failed, every convert job that depends on
\* it is failed and absent from the queue.
C5_DependentsFailWithDownload ==
    \A d, k \in DOMAIN jobs :
        (/\ jobs[d].type = "download"
         /\ jobs[d].status = "failed"
         /\ jobs[k].type = "convert"
         /\ jobs[k].dependsOn = d) =>
            /\ jobs[k].status = "failed"
            /\ ~InQueue(k)

\* C6: a job that entered downloading or converting does not stay there once
\* its handler is over: when streamDownload / convertMedia threw after
\* startJob succeeded, the job is completed or failed and the slot is free.
C6_ThrowReleasesSlot ==
    \A j \in DOMAIN jobs :
        handler[j].pc = "threw" =>
            /\ jobs[j].status \in TerminalStatus
            /\ activeJob # j

\* C7 as stated: whenever completeJob, failJob or cancelJob is applied to an
\* existing job, processQueue is entered with activeJob null and activeJob
\* is null on return.
C7_ProcessQueueEnteredIdle ==
    \A j \in DOMAIN jobs : \A r \in TerminalOps(j) :
        r.entry = NoJob /\ r.activeJob = NoJob

\* C7: whenever completeJob, failJob or cancelJob is applied to an existing
\* job while no other job is the active job, processQueue is entered with
\* activeJob null and activeJob is null on return.
C7_ProcessQueueEnteredIdleUnlessOtherActive ==
    \A j \in DOMAIN jobs : \A r \in TerminalOps(j) :
        activeJob \in {NoJob, j} => (r.entry = NoJob /\ r.activeJob = NoJob)

\* completeJob was applied to the active job while another job waited
C7_Witness ==
    \E j \in DOMAIN jobs :
        /\ handler[j].pc = "awaited"
        /\ jobs[j].status = "completed"
        /\ jobs[j].error = NoError
        /\ activeJob = NoJob
        /\ queue # <<>>

\* C8: once the client has disconnected from a streaming download or
\* conversion, the job is no longer downloading / converting and is not the
\* active job.
C8_DisconnectFailsJob ==
    \A j \in DOMAIN jobs :
        handler[j].gone =>
            /\ jobs[j].status \notin ActiveStatus
            /\ activeJob # j

\* C9: once the session of a download has been cancelled through
\* POST /download/{downloadId}/cancel, the job that owns it is no longer
\* downloading and is not the active job.
C9_SessionCancelFailsJob ==
    \A j \in DOMAIN jobs :
        (/\ jobs[j].downloadId \in DOMAIN sessions
         /\ sessions[jobs[j].downloadId].status = "cancelled") =>
            /\ jobs[j].status \notin ActiveStatus
            /\ activeJob # j

\* what cancelJob leaves of job j in the scheduler r it returns
CancelLeaves(j, r) ==
    /\ r.jobs[j].status = "failed"
    /\ r.jobs[j].error = ErrCancelled
    /\ \A i \in 1..Len(r.queue) : r.queue[i] # j
    /\ r.activeJob # j

\* startJob succeeds for the head of r's queue if its dependency is satisfied
HeadStarts(r) ==
    r.queue # <<>> =>
        LET h == Head(r.queue) IN
        /\ h \in DOMAIN r.jobs
        /\ canJobStart(r.jobs, r.jobs[h]) =>
              LET r2 == startJob(r, h, h) IN
              r2.activeJob = h /\ r2.jobs[h].status \in ActiveStatus

\* C10 as stated: cancelJob on a queued or active job leaves it failed with
\* error "Cancelled by user", absent from the queue and not active, after
\* which startJob succeeds for the new queue head provided its dependency
\* is satisfied.
C10_CancelThenHeadStarts ==
    \A j \in DOMAIN jobs :
        jobs[j].status \in {"queued"} \cup ActiveStatus =>
            LET r == cancelJob(World.q, j) IN
            CancelLeaves(j, r) /\ HeadStarts(r)

\* C10: cancelJob on a queued or active job leaves it failed with error
\* "Cancelled by user", absent from the queue and not active, after which
\* startJob succeeds for the new queue head provided its dependency is
\* satisfied and no other job is active.
C10_CancelThenHeadStartsIfIdle ==
    \A j \in DOMAIN jobs :
        jobs[j].status \in {"queued"} \cup ActiveStatus =>
            LET r == cancelJob(World.q, j) IN
            /\ CancelLeaves(j, r)
            /\ activeJob \in {NoJob, j} => HeadStarts(r)

\* the active job was cancelled before its handler settled, and the new head
\* of the queue is a convert job whose dependency is completed
C10_Witness ==
    \E j \in DOMAIN jobs :
        /\ handler[j].pc = "streaming"
        /\ jobs[j].status = "failed"
        /\ jobs[j].error = ErrCancelled
        /\ activeJob = NoJob
        /\ queue # <<>>
        /\ jobs[Head(queue)].dependsOn # NoJob
        /\ startJobGuard(World.q, Head(queue))

\* C11: a step that cancels the active job leaves every child process
\* spawned for it that is still running with a termination signal sent.
C11_CancelSignalsChildren ==
    [][\A j \in DOMAIN jobs :
          (activeJob = j /\ CancelJob(j)) =>
             /\ handler'[j].child = "running" => handler'[j].killed
             /\ handler'[j].ffmpeg = "running" => handler'[j].ffKilled]_vars

\* C12: no child process is still running once 2 seconds have passed since
\* the graceful termination signal was sent to it: by then it has exited or
\* has been sent the unconditional kill signal.
C12_ForceKillAfterGrace ==
    \A j \in JobIds :
        /\ handler[j].grace = "over" => handler[j].child # "running"
        /\ handler[j].ffGrace = "over" => handler[j].ffmpeg # "running"

\* C13: once a download session is completed, error or cancelled, no step of
\* the program changes its status for as long as the session exists.
C13_SessionTerminalIsFinal ==
    [][\A d \in DOMAIN sessions \cap DOMAIN sessions' :
          sessions[d].status \in SessionTerminal =>
             sessions'[d].status = sessions[d].status]_vars

\* what a subscriber of the bus last saw of the download id of the i-th event
\* of a step, before that event: the event emitted before it in the step, or
\* else session.progress as the step found it
EventBefore(i) ==
    LET d == published'[i].downloadId
        earlier == {k \in 1..(i - 1) : published'[k].downloadId = d}
    IN IF earlier # {}
       THEN published'[CHOOSE k \in earlier : \A m \in earlier : m <= k]
       ELSE IF d \in DOMAIN sessions
       THEN [downloadId |-> d, status |-> sessions[d].status,
             bytesDownloaded |-> progress[d].bytesDownloaded,
             totalBytes |-> progress[d].totalBytes,
             percentage |-> progress[d].percentage]
       ELSE [downloadId |-> d, status |-> "downloading",
             bytesDownloaded |-> 0, totalBytes |-> Null, percentage |-> Null]

\* C14: no progress event is published for a download id whose last published
\* event, or stored session status, is already completed, error or cancelled;
\* a second terminal mark publishes nothing.
C14_NoEventAfterTerminal ==
    [][\A i \in 1..Len(published') :
          EventBefore(i).status \notin SessionTerminal]_vars

\* C16: of two successive events of a download id that both carry status
\* downloading, the later has a percentage that is not smaller, and is not
\* null when the earlier one had a percentage.
C16_PercentageMonotone ==
    [][\A i \in 1..Len(published') :
          LET b == EventBefore(i)
              e == published'[i]
          IN (b.status = "downloading" /\ e.status = "downloading"
                /\ b.percentage # Null) =>
                (e.percentage # Null /\ e.percentage >= b.percentage)]_vars

\* C17: the percentage of every published progress event is null or lies
\* between 0 and 100.
C17_PercentageInRange ==
    \A i \in 1..Len(published) :
        published[i].percentage = Null \/ published[i].percentage \in 0..100

\* C18: every published event of a download id carries a bytesDownloaded that
\* is not smaller than that of the event published before it for that id.
C18_BytesMonotone ==
    [][\A i \in 1..Len(published') :
          published'[i].bytesDownloaded >= EventBefore(i).bytesDownloaded]_vars

\* C15: when a started job becomes completed, the session of its download id
\* is completed; when a started job becomes failed, the session of its
\* download id is error or cancelled.
C15_JobOutcomeMatchesSession ==
    [][\A j \in Survivors :
          LET d == jobs'[j].downloadId
              sessionIn(S) == d \in DOMAIN sessions' /\ sessions'[d].status \in S
          IN jobs[j].status \in ActiveStatus =>
                /\ jobs'[j].status = "completed" => sessionIn({"completed"})
                /\ jobs'[j].status = "failed" => sessionIn({"error", "cancelled"})]_vars

\* C19: every job a step admits carries a URL that passes the URL policy, and
\* no handler runs the extractor's metadata query on a URL that fails it.
C19_NoInvalidUrlAdmitted ==
    [][/\ \A j \in DOMAIN jobs' \ DOMAIN jobs : jobs'[j].urlOk
       /\ \A j \in JobIds : handler'[j].pc = "info" => handler'[j].urlOk]_vars

\* the URLs the policy names: longer than 2048 characters, a scheme other
\* than http and https, or one of the named hosts
HostNamed(u) ==
    LET h == toLowerCase(u.host) IN
    \/ h = Str_localhost
    \/ h = Str_0000
    \/ h = <<"[", ":", ":", "1", "]">>
    \/ StartsWith(h, Str_127)
    \/ StartsWith(h, Str_10)
    \/ StartsWith(h, Str_192_168)
    \/ Private172(h)

\* C20: isValidUrl returns false for every URL longer than 2048 characters,
\* with a scheme other than http or https, or with host localhost, 0.0.0.0,
\* ::1, 127.*, 10.*, 192.168.* or 172.16.* to 172.31.*.
C20_PolicyRejects ==
    (url # NoUrl /\ (\/ url.length > MaxUrlLength
                     \/ toLowerCase(url.scheme) \notin {Str_http, Str_https}
                     \/ HostNamed(url))) => ~valid

\* the four cases in which startJob answers false
StartRefused(q, j) ==
    \/ j \notin DOMAIN q.jobs
    \/ q.activeJob # NoJob
    \/ q.queue = <<>>
    \/ Head(q.queue) # j
    \/ /\ q.jobs[j].dependsOn # NoJob
       /\ \/ q.jobs[j].dependsOn \notin DOMAIN q.jobs
          \/ q.jobs[q.jobs[j].dependsOn].status # "completed"

\* C21: a startJob call that answers false (unknown job, another job active,
\* not the queue head, dependency not completed) leaves jobs, queue and
\* activeJob as they were and emits no event.
C21_RefusedStartIsSilent ==
    \A j \in JobIds : \A d \in DownloadIds :
        StartRefused(World.q, j) =>
            LET r == startJob(World.q, j, d) IN
            /\ r.jobs = jobs
            /\ r.queue = queue
            /\ r.activeJob = activeJob
            /\ r.out = <<>>

\* a queued job at the head of the queue that startJob refuses
C21_Witness ==
    \E j \in DOMAIN jobs :
        /\ jobs[j].status = "queued"
        /\ queue # <<>> /\ Head(queue) = j
        /\ StartRefused(World.q, j)
        /\ startJob(World.q, j, j).out = <<>>

\* what the claim says canStart reports about the state r.q after admitting id
HeadAndIdle(q, id) ==
    /\ q.activeJob = NoJob
    /\ q.queue # <<>> /\ Head(q.queue) = id
    /\ q.jobs[id].dependsOn # NoJob =>
           /\ q.jobs[id].dependsOn \in DOMAIN q.jobs
           /\ q.jobs[q.jobs[id].dependsOn].status = "completed"

\* a startJob call on id in state q answers true: it makes id the active job
StartSucceeds(q, id) ==
    LET r == startJob(q, id, id) IN
    r.activeJob = id /\ r.jobs[id].status \in ActiveStatus

\* C22: the canStart flag answered when addDownloadJob or addConvertJob admits
\* a new job is true exactly when, after the admission, activeJob is null and
\* the new job is the queue head with its dependency completed, and exactly
\* when a startJob call on the new job made next answers true.
C22_CanStartIffStartSucceeds ==
    nextId \in JobIds =>
        /\ LET r == addDownloadJob(World.q, nextId, TRUE) IN
           /\ r.canStart <=> HeadAndIdle(r.q, nextId)
           /\ r.canStart <=> StartSucceeds(r.q, nextId)
        /\ \A dependsOn \in JobIds \cup {NoJob} :
               LET r == addConvertJob(World.q, nextId, TRUE, dependsOn) IN
               r.ok => /\ r.canStart <=> HeadAndIdle(r.q, nextId)
                       /\ r.canStart <=> StartSucceeds(r.q, nextId)

\* a state in which a convert job with a completed dependency is admitted at
\* the head of an idle queue: canStart is true and startJob succeeds
C22_Witness ==
    /\ nextId \in JobIds
    /\ \E dependsOn \in DOMAIN jobs :
          LET r == addConvertJob(World.q, nextId, TRUE, dependsOn) IN
          r.ok /\ r.canStart /\ StartSucceeds(r.q, nextId)

\* C23: a job leaves queued for downloading or converting only as the head
\* of the queue, so in admission order: no job admitted before it is still
\* queued, and a head blocked on its dependency is not overtaken.
C23_StartsInQueueOrder ==
    [][\A j \in DOMAIN jobs :
          (jobs[j].status = "queued" /\ jobs'[j].status \in ActiveStatus) =>
              /\ queue # <<>> /\ Head(queue) = j
              /\ \A k \in DOMAIN jobs : jobs[k].status = "queued" => k >= j]_vars

\* the head of the queue is blocked on a dependency that is not completed,
\* nothing is active, and startJob refuses the job queued behind it
C23_Witness ==
    /\ activeJob = NoJob
    /\ Len(queue) >= 2
    /\ Head(queue) \in DOMAIN jobs
    /\ ~canJobStart(jobs, jobs[Head(queue)])
    /\ queue[2] \in DOMAIN jobs
    /\ canJobStart(jobs, jobs[queue[2]])
    /\ startJob(World.q, queue[2], queue[2]).activeJob = NoJob

\* the scheduler calls a caller can make on job j in the current state, each
\* with the events it emits
SchedulerCalls(j) ==
    TerminalOps(j) \cup {startJob(World.q, j, j)} \cup
    (IF jobs[j].downloadId # NoId
     THEN {onProgressJob(World.q, j, st, IF st = "error" THEN ErrExitCode ELSE NoError) :
              st \in {"downloading", "completed", "error", "cancelled"}}
     ELSE {})

\* a snapshot whose processing job is completed or failed
TerminalProcessing(snapshot) ==
    /\ snapshot.processing # NoJob
    /\ snapshot.processing \in DOMAIN snapshot.jobs
    /\ snapshot.jobs[snapshot.processing] \in TerminalStatus

\* C24: no queue-state snapshot, whether the payload of a queueUpdated event
\* or the answer of getQueueState, names a processing job whose status is
\* completed or failed.
C24_NoTerminalProcessingInSnapshot ==
    /\ ~TerminalProcessing(getQueueState(World.q))
    /\ \A j \in DOMAIN jobs : \A r \in SchedulerCalls(j) :
           \A i \in DOMAIN r.out :
               r.out[i].type = "queueUpdated" => ~TerminalProcessing(r.out[i])

\* the progress messages among the messages m
ProgressBodies(m) ==
    LET sel == SelectSeq(m, LAMBDA x : x.type = "progress")
    IN [i \in DOMAIN sel |-> sel[i].body]

\* the events of the step for download id d, with type progress, in the
\* order the bus emitted them
EmittedFor(d) == SelectSeq(published', LAMBDA e : e.downloadId = d)

\* C25: on a progress connection the first message is connected; the current
\* progress of the session follows it if the session exists when the request
\* arrives; after that the connection is sent the progress events of its
\* download id, and only those, in the order in which they are published.
C25_SubscriptionOrder ==
    [][/\ (client = NoClient /\ client' # NoClient) =>
            LET d == client'.downloadId IN
            /\ client'.messages[1] = Connected(d)
            /\ IF d \in DOMAIN sessions
               THEN /\ Len(client'.messages) = 2
                    /\ client'.messages[2] = Message("progress", getProgress(d))
               ELSE Len(client'.messages) = 1
       /\ (client.open /\ client'.open) =>
            /\ Len(client'.messages) >= Len(client.messages)
            /\ SubSeq(client'.messages, 1, Len(client.messages)) = client.messages
            /\ ProgressBodies(SubSeq(client'.messages, Len(client.messages) + 1,
                                     Len(client'.messages)))
                 = EmittedFor(client.downloadId)
       /\ ~client.open /\ client # NoClient => client'.messages = client.messages]_vars

\* a connection that was sent connected, the snapshot of an existing session
\* and then two different progress events, while the other download id has a
\* session too
C25_Witness ==
    /\ client.open
    /\ Len(client.messages) >= 4
    /\ client.messages[1].type = "connected"
    /\ client.messages[2].type = "progress"
    /\ client.messages[3].type = "progress"
    /\ client.messages[4].type = "progress"
    /\ client.messages[3].body.status # client.messages[4].body.status
    /\ \E d \in DOMAIN sessions : d # client.downloadId

\* C26: every session a step removes from the session registry is in a
\* terminal status (completed, error or cancelled) when it is removed; a
\* session whose status is downloading is never removed.
C26_OnlyTerminalSessionsRemoved ==
    [][\A d \in DOMAIN sessions \ DOMAIN sessions' :
           sessions[d].status \in SessionTerminal]_vars

\* the handler created no session and no handler instance with a child
NothingCreated(w) == w.s = sessions /\ w.h = handler

\* C27: when the job cannot be started, GET /api/download answers 409 to a
\* request naming a queued job by jobId, and 202 with the new job's id to a
\* legacy request; either way the job is queued afterwards and the request
\* has created no session and no child process.
C27_RefusedDownloadLeavesJobQueued ==
    /\ \A j \in DOMAIN jobs :
           (/\ jobs[j].type = "download"
            /\ jobs[j].status = "queued"
            /\ ~StartSucceeds(World.q, j)) =>
               LET r == downloadByJobId(World, j) IN
               /\ r.res = 409
               /\ r.w.q.jobs[j].status = "queued"
               /\ NothingCreated(r.w)
    /\ nextId <= MaxProgramJobs =>
           \A urlOk \in BOOLEAN : \A download_id \in DownloadIds \cup {NoId} :
               ~StartSucceeds(addDownloadJob(World.q, nextId, urlOk).q, nextId) =>
                   LET r == downloadLegacy(World, nextId, urlOk, download_id) IN
                   /\ r.res = 202
                   /\ r.jobId = nextId
                   /\ r.w.q.jobs[nextId].status = "queued"
                   /\ NothingCreated(r.w)

\* a job is active and a download job admitted behind it (by a legacy request
\* answered 202, or by POST /api/queue/download) is still queued, has no
\* session and no handler instance, and a request naming it is answered 409
C27_Witness ==
    /\ activeJob # NoJob
    /\ \E j \in DOMAIN jobs :
          /\ jobs[j].type = "download" /\ jobs[j].status = "queued"
          /\ j \notin DOMAIN sessions
          /\ handler[j] = NoHandler
          /\ downloadByJobId(World, j).res = 409

\* the last request was for the health check or a path under /api/progress
\* or /api/queue
ExemptRequest ==
    \/ limiter.path = <<"health">>
    \/ PathStartsWith(limiter.path, <<"api", "progress">>)
    \/ PathStartsWith(limiter.path, <<"api", "queue">>)

\* C28: a request to /api/progress/*, /api/queue/* or the health check is
\* neither counted by the global rate limiter nor rejected by it.
C28_ExemptFromGlobalLimiter ==
    ExemptRequest => (~limiter.counted /\ ~limiter.rejected)

\* C29: safeFilename is idempotent, titles longer than the cap of 100
\* characters included: sanitizing a sanitized name returns it unchanged.
C29_SafeFilenameIdempotent ==
    filename # NoFilename => safeFilename(filename.safe) = filename.safe

\* the errors failJob is called with
FailErrors == {ErrExitCode, ErrDisconnected, ErrResponseClosed, ErrDownloadTimeout}

\* C30: failJob on a download job leaves every convert job that was queued
\* and depends on it failed with error "Dependency failed: <err>" and out of
\* the queue; that convert job was never started, and no event of the call
\* reports it as downloading or converting.
C30_FailJobFailsDependents ==
    \A j \in DOMAIN jobs : \A error \in FailErrors :
        jobs[j].type = "download" =>
            LET r == failJob(World.q, j, error) IN
            \A k \in DOMAIN jobs :
                (/\ jobs[k].type = "convert"
                 /\ jobs[k].dependsOn = j
                 /\ jobs[k].status = "queued") =>
                    /\ r.jobs[k].status = "failed"
                    /\ r.jobs[k].error = DependencyFailed(error)
                    /\ \A i \in DOMAIN r.queue : r.queue[i] # k
                    /\ jobs[k].downloadId = NoId
                    /\ r.jobs[k].downloadId = NoId
                    /\ r.activeJob # k
                    /\ \A i \in DOMAIN r.out :
                           r.out[i].type = "queueUpdated" =>
                               r.out[i].jobs[k] \notin ActiveStatus

\* a convert job that failJob on its download job has failed: it carries the
\* dependency error, is out of the queue and was never started
C30_Witness ==
    \E k \in DOMAIN jobs :
        /\ jobs[k].type = "convert"
        /\ jobs[k].status = "failed"
        /\ jobs[k].error = DependencyFailed(ErrExitCode)
        /\ jobs[k].downloadId = NoId
        /\ ~InQueue(k)
        /\ jobs[k].dependsOn \in DOMAIN jobs
        /\ jobs[jobs[k].dependsOn].status = "failed"
        /\ jobs[jobs[k].dependsOn].error = ErrExitCode

\* job k's extractor or transcoder is running, or its stream is still open
StillWorking(k) ==
    \/ handler[k].child \in {"running", "sigkilled"}
    \/ handler[k].ffmpeg \in {"running", "sigkilled"}
    \/ handler[k].stream = "open"

\* C31: in every step in which startJob succeeds for a job, no child process
\* of a job started before is still running and no earlier job's stream is
\* still open: one job at a time at the level of processes and streams.
C31_OneJobAtATimeInProcesses ==
    [][\A j \in DOMAIN jobs :
          (jobs[j].status = "queued" /\ jobs'[j].status \in ActiveStatus) =>
              \A k \in JobIds \ {j} : ~StillWorking(k)]_vars

\* C32: no two jobs carry the same download id, so a progress event for a
\* download id is matched to the one job started with it; this holds also
\* when the client chooses the download_id of a legacy download.
C32_DownloadIdNamesOneJob ==
    \A j \in DOMAIN jobs : \A k \in DOMAIN jobs :
        (j # k /\ jobs[j].downloadId # NoId) => jobs[j].downloadId # jobs[k].downloadId

\* C33: the queue holds no id twice, every id in it names an existing job
\* whose status is queued, and every job whose status is queued is in it.
C33_QueueIsTheQueuedJobs ==
    /\ \A i \in DOMAIN queue : \A k \in DOMAIN queue : i # k => queue[i] # queue[k]
    /\ \A i \in DOMAIN queue :
           queue[i] \in DOMAIN jobs /\ jobs[queue[i]].status = "queued"
    /\ \A j \in DOMAIN jobs : jobs[j].status = "queued" => InQueue(j)

\* a job is queued while another was removed from the queue without being
\* started: cancelled, or failed with its dependency
C33_Witness ==
    /\ queue # <<>>
    /\ \E k \in DOMAIN jobs :
          /\ jobs[k].status = "failed"
          /\ jobs[k].downloadId = NoId
          /\ jobs[k].error \in {ErrCancelled, DependencyFailed(ErrExitCode)}

\* C34: the job a queued convert job depends on exists: the periodic cleanup
\* never removes it.
C34_DependencyOfQueuedJobExists ==
    \A k \in DOMAIN jobs :
        (jobs[k].status = "queued" /\ jobs[k].dependsOn # NoJob) =>
            jobs[k].dependsOn \in DOMAIN jobs

\* C35: in a conversion, once the extractor has exited or closed, with any
\* exit code and before or after cleanup has run, the stdin of a transcoder
\* that still runs is ended or destroyed.
C35_TranscoderStdinClosed ==
    \A j \in JobIds :
        (/\ handler[j].kind = "convert"
         /\ handler[j].child = "closed"
         /\ handler[j].ffmpeg \in {"running", "sigkilled"}) =>
            handler[j].stdin \in {"ended", "destroyed"}

\* the extractor exited after cleanup had run: its listeners returned at once
C35_Witness ==
    \E j \in JobIds :
        /\ handler[j].kind = "convert"
        /\ handler[j].child = "closed"
        /\ handler[j].ffmpeg \in {"running", "sigkilled"}
        /\ handler[j].cleaned
        /\ handler[j].stdin = "destroyed"

\* the extractor exited before cleanup: its listeners ended the stdin
C35_WitnessEnded ==
    \E j \in JobIds :
        /\ handler[j].kind = "convert"
        /\ handler[j].child = "closed"
        /\ handler[j].ffmpeg = "running"
        /\ ~handler[j].cleaned
        /\ handler[j].stdin = "ended"

\* C36: a subscription for download id X is never sent a progress event
\* whose downloadId differs from X, whatever other downloads publish.
C36_OnlyOwnProgressEvents ==
    \A i \in 1..Len(client.messages) :
        client.messages[i].type = "progress" =>
            client.messages[i].body.downloadId = client.downloadId

\* another download has just published while the subscription was open and
\* had already received progress events of its own
C36_Witness ==
    /\ client.open
    /\ \E i \in 1..Len(published) : published[i].downloadId # client.downloadId
    /\ \E i \in 1..Len(client.messages) : client.messages[i].type = "progress"

\* C37: the byte counter publishes a progress update at least once for every
\* 64 KiB that pass through it: a chunk that takes the count past a multiple
\* of 64 KiB is followed by an update carrying the new count.
C37_UpdateEvery64KiB ==
    [][\A j \in JobIds :
          (counter'[j] \div ReportEvery > counter[j] \div ReportEvery) =>
              \E i \in 1..Len(published') :
                  /\ published'[i].downloadId = handler[j].did
                  /\ published'[i].bytesDownloaded = counter'[j]]_vars

\* the URLs the URL policy rejects
FailsPolicy(u) ==
    \/ u.length > MaxUrlLength
    \/ toLowerCase(u.scheme) \notin {Str_http, Str_https}
    \/ HostNamed(u)

\* C38: a batch of 1 to 20 entries is answered with total = successful +
\* failed = the number of non-empty input URLs; every URL that fails the URL
\* policy is a failed item with error "Invalid URL format" and is not passed
\* to the extractor.
C38_BatchAnalyzeResponse ==
    LET n == Len(batch.urls)
        nonEmpty == {i \in 1..n : trim(batch.urls[i]).length > 0}
        answered == batch.status # 0 \/ batch.analyzed = <<>>
    IN (n \in 1..MAX_BATCH_SIZE /\ answered) =>
          /\ batch.status = 200
          /\ batch.total = batch.successful + batch.failed
          /\ batch.total = Cardinality(nonEmpty)
          /\ \A i \in nonEmpty :
                FailsPolicy(trim(batch.urls[i])) =>
                   /\ \E k \in 1..Len(batch.results) :
                         batch.results[k] = [url |-> trim(batch.urls[i]),
                                             success |-> FALSE, error |-> ErrInvalidUrl]
                   /\ \A k \in 1..Len(batch.analyzed) :
                         batch.analyzed[k] # trim(batch.urls[i])

\* the job ids that name no job, or a job that is not a download job
BadDependencies == {d \in JobIds : d \notin DOMAIN jobs \/ jobs[d].type # "download"}

\* C39: addConvertJob with a dependsOn that names no existing job, or a job
\* that is not a download job, raises an error, leaves jobs, queue and
\* activeJob unchanged and emits no event.
C39_BadDependencyRefused ==
    \A d \in BadDependencies :
        LET r == addConvertJob(World.q, nextId, TRUE, d) IN
        /\ ~r.ok
        /\ r.q.jobs = World.q.jobs
        /\ r.q.queue = queue
        /\ r.q.activeJob = activeJob
        /\ r.q.out = <<>>

\* both cases at once, with a job waiting and a job active: one id names a
\* convert job and another names no job
C39_Witness ==
    /\ queue # <<>>
    /\ activeJob # NoJob
    /\ \E d \in BadDependencies : d \in DOMAIN jobs
    /\ \E d \in BadDependencies : d \notin DOMAIN jobs

====
